---- MODULE Spec2Model ----
(***************************************************************************)
(* Model of the taxonomy resolution and staging reconciliation engine of   *)
(* Mindsync: BatchProcessor (src/src/services/batchProcessor.ts),          *)
(* TaxonomyService and FileOpsService (src/src/services/taxonomyService.ts)*)
(* and the staging store (src/src/store/stagingStore.ts).                  *)
(*                                                                         *)
(* A string is a sequence of characters; a character is a one-letter TLA+  *)
(* string.  A CJK ideograph of the source is one character written by its  *)
(* pinyin: "wei","fen","lei" is the source's three-character default       *)
(* category, "tiao","guo" the two-character skip marker.                   *)
(***************************************************************************)
EXTENDS Integers, Sequences, FiniteSets, TLC

(***************************************************************************)
(* String primitives of JavaScript used by the code.                       *)
(***************************************************************************)

\* s.replace(/^\/+/, '')
RECURSIVE StripLeading(_)
StripLeading(s) ==
    IF s # <<>> /\ Head(s) = "/" THEN StripLeading(Tail(s)) ELSE s

\* s.replace(/\/+$/, '')
RECURSIVE StripTrailing(_)
StripTrailing(s) ==
    IF s # <<>> /\ s[Len(s)] = "/" THEN StripTrailing(SubSeq(s, 1, Len(s) - 1)) ELSE s

\* s.replace(/^\/+/, '').replace(/\/+$/, '')
StripSlashes(s) == StripTrailing(StripLeading(s))

\* s.split('/'): the pieces between single slashes, empty pieces kept
RECURSIVE SplitSlash(_)
SplitSlash(s) ==
    IF \A i \in 1..Len(s) : s[i] # "/"
    THEN <<s>>
    ELSE LET i == CHOOSE k \in 1..Len(s) :
                     s[k] = "/" /\ \A j \in 1..(k - 1) : s[j] # "/"
         IN  <<SubSeq(s, 1, i - 1)>> \o SplitSlash(SubSeq(s, i + 1, Len(s)))

\* parts.filter(Boolean): the empty string is falsy
FilterBoolean(parts) == SelectSeq(parts, LAMBDA p : p # <<>>)

\* parts.join('/')
RECURSIVE JoinSlash(_)
JoinSlash(parts) ==
    IF parts = <<>> THEN <<>>
    ELSE IF Len(parts) = 1 THEN parts[1]
    ELSE parts[1] \o <<"/">> \o JoinSlash(Tail(parts))

\* parts.slice(0, n)
Slice0(parts, n) == SubSeq(parts, 1, IF n < Len(parts) THEN n ELSE Len(parts))

\* hay.includes(needle) on strings: needle is a substring of hay
Includes(hay, needle) ==
    \E i \in 0..(Len(hay) - Len(needle)) : SubSeq(hay, i + 1, i + Len(needle)) = needle

\* list.includes(x) on arrays
ListIncludes(list, x) == \E i \in 1..Len(list) : list[i] = x

\* c.toLowerCase() for one character
UpperCase == <<"A", "B", "C", "D", "E", "F", "G", "H", "I", "J", "K", "L", "M", "N", "O", "P", "Q", "R", "S", "T", "U", "V", "W", "X", "Y", "Z">>
LowerCase == <<"a", "b", "c", "d", "e", "f", "g", "h", "i", "j", "k", "l", "m", "n", "o", "p", "q", "r", "s", "t", "u", "v", "w", "x", "y", "z">>
LowerOf ==
    [u \in {UpperCase[n] : n \in 1..Len(UpperCase)} |->
        LowerCase[CHOOSE n \in 1..Len(UpperCase) : UpperCase[n] = u]]
LowerChar(c) == IF c \in DOMAIN LowerOf THEN LowerOf[c] ELSE c

\* s.toLowerCase()
ToLowerCase(s) == [i \in 1..Len(s) |-> LowerChar(s[i])]

\* the separators of /[\s\/]+/
IsSeparator(c) == c = "/" \/ c = " "

\* s.split(/[\s\/]+/): a run of separators is one cut; a leading or a trailing
\* run leaves an empty piece at that end
RECURSIVE CollapseSeparators(_)
CollapseSeparators(s) ==
    IF s = <<>> THEN <<>>
    ELSE IF IsSeparator(Head(s))
         THEN LET rest == CollapseSeparators(Tail(s))
              IN  IF rest # <<>> /\ Head(rest) = "/" THEN rest ELSE <<"/">> \o rest
         ELSE <<Head(s)>> \o CollapseSeparators(Tail(s))

SplitWords(s) == SplitSlash(CollapseSeparators(s))

\* new Set(array)
SeqToSet(q) == {q[i] : i \in 1..Len(q)}

(***************************************************************************)
(* TaxonomyService: the category tree, the similarity and the best match.  *)
(***************************************************************************)

\* DEFAULT_CONFIG.maxDepth
DefaultMaxDepth == 3

\* DEFAULT_CONFIG.maxChildren
DefaultMaxChildren == 10

\* DEFAULT_CONFIG (ignorePatterns play no part in resolution)
DEFAULT_CONFIG ==
    [mode |-> "strict", maxDepth |-> DefaultMaxDepth, maxChildren |-> DefaultMaxChildren,
     categoryVocabulary |-> <<>>]

PathWork == <<"/", "W", "o", "r", "k">>
PathLife == <<"/", "L", "i", "f", "e">>
PathArchive == <<"/", "A", "r", "c", "h", "i", "v", "e">>
PathUnclassified == <<"/", "_", "U", "n", "c", "l", "a", "s", "s", "i", "f", "i", "e", "d">>

\* a CategoryNode {name, path, children}
Node(name, path, children) == [name |-> name, path |-> path, children |-> children]

\* DEFAULT_TAXONOMY_ROOT
DEFAULT_TAXONOMY_ROOT ==
    << Node(Tail(PathWork), PathWork, <<>>),
       Node(Tail(PathLife), PathLife, <<>>),
       Node(Tail(PathArchive), PathArchive, <<>>),
       Node(Tail(PathUnclassified), PathUnclassified, <<>>) >>

\* getAllCategoryPaths: every node's path, a node before its children
RECURSIVE getAllCategoryPaths(_)
getAllCategoryPaths(nodes) ==
    IF nodes = <<>> THEN <<>>
    ELSE <<Head(nodes).path>> \o getAllCategoryPaths(Head(nodes).children)
             \o getAllCategoryPaths(Tail(nodes))

\* a similarity is the fraction n / d
Sim(n, d) == [n |-> n, d |-> d]
SimZero == Sim(0, 1)
SimGreater(a, b) == a.n * b.d > b.n * a.d

\* similarity < threshold, the threshold in tenths (0.3 is 3, 0.2 is 2)
SimBelow(a, tenths) == a.n * 10 < tenths * a.d

\* calculateSimilarity: Jaccard over the lower-cased words
calculateSimilarity(text1, text2) ==
    LET words1 == SeqToSet(SplitWords(ToLowerCase(text1)))
        words2 == SeqToSet(SplitWords(ToLowerCase(text2)))
        intersection == words1 \cap words2
        union == words1 \cup words2
    IN  IF Cardinality(union) > 0
        THEN Sim(Cardinality(intersection), Cardinality(union))
        ELSE SimZero

\* the loop of findBestMatch: a later path wins only with a greater similarity
RECURSIVE BestOver(_, _, _)
BestOver(paths, suggestedPath, best) ==
    IF paths = <<>> THEN best
    ELSE LET similarity == calculateSimilarity(suggestedPath, Head(paths))
         IN  BestOver(Tail(paths), suggestedPath,
                      IF SimGreater(similarity, best.similarity)
                      THEN [path |-> Head(paths), similarity |-> similarity]
                      ELSE best)

\* findBestMatch(suggestedPath, threshold) over the service's tree
findBestMatch(root, suggestedPath, tenths) ==
    LET bestMatch == BestOver(getAllCategoryPaths(root), suggestedPath,
                              [path |-> PathUnclassified, similarity |-> SimZero])
    IN  IF SimBelow(bestMatch.similarity, tenths)
        THEN [path |-> PathUnclassified, similarity |-> SimZero]
        ELSE bestMatch

\* findNodeByPath(path)?.children: found is FALSE when a part of the path has no node
RECURSIVE ChildrenAt(_, _)
ChildrenAt(nodes, parts) ==
    IF parts = <<>> THEN [children |-> nodes, found |-> TRUE]
    ELSE LET hits == {i \in 1..Len(nodes) :
                          ToLowerCase(nodes[i].name) = ToLowerCase(Head(parts))}
         IN  IF hits = {} THEN [children |-> <<>>, found |-> FALSE]
             ELSE LET i == CHOOSE k \in hits : \A j \in hits : k <= j
                  IN  ChildrenAt(nodes[i].children, Tail(parts))

\* targetNodes.push(newNode) at the node findNodeByPath finds
RECURSIVE PushAt(_, _, _)
PushAt(nodes, parts, newNode) ==
    IF parts = <<>> THEN Append(nodes, newNode)
    ELSE LET hits == {i \in 1..Len(nodes) :
                          ToLowerCase(nodes[i].name) = ToLowerCase(Head(parts))}
             i == CHOOSE k \in hits : \A j \in hits : k <= j
         IN  [nodes EXCEPT ![i].children = PushAt(nodes[i].children, Tail(parts), newNode)]

\* the parts findNodeByPath walks; no parentPath ('' or undefined) is the root
ParentParts(parentPath) ==
    IF parentPath = <<>> THEN <<>> ELSE SplitSlash(StripLeading(parentPath))

\* addCategory(name, parentPath): the tree afterwards (unchanged when it returns false)
addCategory(root, cfg, name, parentPath) ==
    LET targetNodes == ChildrenAt(root, ParentParts(parentPath))
    IN  IF ~targetNodes.found THEN root
        ELSE IF Len(targetNodes.children) >= cfg.maxChildren THEN root
        ELSE PushAt(root, ParentParts(parentPath),
                    Node(name,
                         IF parentPath # <<>> THEN parentPath \o <<"/">> \o name
                                              ELSE <<"/">> \o name,
                         <<>>))

(***************************************************************************)
(* The correction learner and the vocabulary check of TaxonomyService.     *)
(***************************************************************************)

\* the cap of the correction log
CorrectionCap == 100

\* a CorrectionRecord (the timestamp plays no part)
CorrectionRecord(aiSuggested, userChosen, fileName) ==
    [aiSuggested |-> aiSuggested, userChosen |-> userChosen, fileName |-> fileName]

\* recordCorrection: nothing when the user chose the suggestion, else appended,
\* the log keeping its last CorrectionCap records
recordCorrection(log, aiSuggested, userChosen, fileName) ==
    IF aiSuggested = userChosen THEN log
    ELSE LET appended == Append(log, CorrectionRecord(aiSuggested, userChosen, fileName))
         IN  IF Len(appended) > CorrectionCap
             THEN SubSeq(appended, Len(appended) - CorrectionCap + 1, Len(appended))
             ELSE appended

IsPrefixBreak(c) == c \in {"0", "1", "2", "3", "4", "5", "6", "7", "8", "9", "_", "-"}

\* the part of a file name before its first digit, underscore or hyphen
RECURSIVE NamePrefix(_)
NamePrefix(name) ==
    IF name = <<>> \/ IsPrefixBreak(Head(name)) THEN <<>>
    ELSE <<Head(name)>> \o NamePrefix(Tail(name))

\* the part of a file name after its last dot (empty without a dot)
RECURSIVE NameExtension(_)
NameExtension(name) ==
    IF \A i \in 1..Len(name) : name[i] # "." THEN <<>>
    ELSE LET i == CHOOSE k \in 1..Len(name) :
                     name[k] = "." /\ \A j \in (k + 1)..Len(name) : name[j] # "."
         IN  SubSeq(name, i + 1, Len(name))

\* the least length of a prefix that may match
MinPrefixLen == 3

FuzzyNameMatch(a, b) ==
    /\ NameExtension(a) = NameExtension(b)
    /\ NamePrefix(a) = NamePrefix(b)
    /\ Len(NamePrefix(a)) >= MinPrefixLen

\* the first record of the log among those at the positions hits, as a list of at
\* most one
FirstRecord(log, hits) ==
    IF hits = {} THEN <<>>
    ELSE <<log[CHOOSE k \in hits : \A j \in hits : k <= j]>>

\* findApplicableCorrection(fileName): the exact name wins, else the first record
\* whose name has the same extension and prefix; <<>> when none applies
findApplicableCorrection(log, fileName) ==
    LET exact == FirstRecord(log, {n \in 1..Len(log) : log[n].fileName = fileName})
    IN  IF exact # <<>> THEN exact
        ELSE FirstRecord(log, {n \in 1..Len(log) :
                                  FuzzyNameMatch(log[n].fileName, fileName)})

\* the top segment of a path
TopSegment(path) ==
    LET parts == FilterBoolean(SplitSlash(path))
    IN  IF parts = <<>> THEN <<>> ELSE parts[1]

\* isInVocabulary(path): no vocabulary, or the top segment of the path contains
\* or is contained in a vocabulary entry
isInVocabulary(cfg, path) ==
    \/ cfg.categoryVocabulary = <<>>
    \/ \E i \in 1..Len(cfg.categoryVocabulary) :
          LET v == cfg.categoryVocabulary[i]
              top == TopSegment(path)
          IN  top # <<>> /\ (Includes(top, v) \/ Includes(v, top))

(***************************************************************************)
(* BatchProcessor.applyAnalysisResult                                      *)
(***************************************************************************)

\* the default category, three ideographs
Uncategorized == <<"wei", "fen", "lei">>

\* the similarity threshold of the vocabulary and maxChildren matches, in tenths
LooseThreshold == 2

\* the similarity threshold of the Strict match, in tenths
StrictThreshold == 3

\* analysis.reasoning || 'AI Analysis'
DefaultReasoning == <<"A", "I", " ", "A", "n", "a", "l", "y", "s", "i", "s">>

\* the reasoning written with a learned correction (the source's sentence, which
\* quotes the original suggestion, is shortened to this word)
LearnedReasoning == <<"L", "e", "a", "r", "n", "e", "d">>

\* a proposal; confidence in hundredths
Proposal(targetPath, summary, tags, reasoning, confidence) ==
    [targetPath |-> targetPath, summary |-> summary, tags |-> tags,
     reasoning |-> reasoning, confidence |-> confidence]

\* analysis.category || default
RawCategory(analysis) ==
    IF analysis.category = <<>> THEN Uncategorized ELSE analysis.category

\* the parts of the raw category
CategoryParts(finalCategory) == FilterBoolean(SplitSlash(StripLeading(finalCategory)))

\* step 1: the depth limit
DepthLimited(cfg, finalCategory) ==
    LET parts == CategoryParts(finalCategory)
    IN  IF Len(parts) > cfg.maxDepth
        THEN JoinSlash(Slice0(parts, cfg.maxDepth))
        ELSE finalCategory

\* step 1.5: the vocabulary
VocabularyEnforced(cfg, root, finalCategory) ==
    IF ~isInVocabulary(cfg, finalCategory) /\ Len(cfg.categoryVocabulary) > 0
    THEN LET bestVocabMatch == findBestMatch(root, finalCategory, LooseThreshold)
             vocab == cfg.categoryVocabulary
         IN  IF \E i \in 1..Len(vocab) :
                    \/ Includes(bestVocabMatch.path, vocab[i])
                    \/ Includes(vocab[i], SplitSlash(bestVocabMatch.path)[1])
             THEN bestVocabMatch.path
             ELSE finalCategory
    ELSE finalCategory

\* parts.slice(0, -1).join('/')
ParentOf(parts) == JoinSlash(SubSeq(parts, 1, Len(parts) - 1))

\* the existing categories whose parent is parentPath
SiblingCategories(existingCategories, parentPath) ==
    SelectSeq(existingCategories, LAMBDA cat : ParentOf(CategoryParts(cat)) = parentPath)

\* exact membership as the code tests it
IsExisting(existingCategories, finalCategory) ==
    \/ ListIncludes(existingCategories, finalCategory)
    \/ ListIncludes(existingCategories, <<"/">> \o finalCategory)

\* step 2: maxChildren, Flexible mode only; parts are those of the raw category
ChildrenLimited(cfg, root, existingCategories, parts, finalCategory) ==
    IF cfg.mode = "flexible" /\ Len(parts) > 0
    THEN LET siblingCategories == SiblingCategories(existingCategories, ParentOf(parts))
         IN  IF /\ ~IsExisting(existingCategories, finalCategory)
                /\ Len(siblingCategories) >= cfg.maxChildren
             THEN StripLeading(findBestMatch(root, finalCategory, LooseThreshold).path)
             ELSE finalCategory
    ELSE finalCategory

\* a Strict branch without the exact-match case: every suggestion is matched fuzzily
StrictResolved_FuzzyOnly(cfg, root, existingCategories, finalCategory) ==
    IF cfg.mode = "strict"
    THEN IF Len(existingCategories) = 0 THEN <<>>
         ELSE LET bestMatch == findBestMatch(root, finalCategory, StrictThreshold)
              IN  IF bestMatch.similarity.n > 0 THEN bestMatch.path
                  ELSE existingCategories[1]
    ELSE finalCategory

\* a Strict branch that keeps the suggestion when there is no existing category
StrictResolved_KeepsSuggestion(cfg, root, existingCategories, finalCategory) ==
    IF cfg.mode = "strict"
    THEN IF IsExisting(existingCategories, finalCategory) \/ Len(existingCategories) = 0
         THEN finalCategory
         ELSE LET bestMatch == findBestMatch(root, finalCategory, StrictThreshold)
              IN  IF bestMatch.similarity.n > 0 THEN bestMatch.path
                  ELSE existingCategories[1]
    ELSE finalCategory

\* the Strict branch
StrictResolved(cfg, root, existingCategories, finalCategory) ==
    IF cfg.mode = "strict"
    THEN IF Len(existingCategories) = 0 THEN <<>>
         ELSE IF IsExisting(existingCategories, finalCategory) THEN finalCategory
         ELSE LET bestMatch == findBestMatch(root, finalCategory, StrictThreshold)
              IN  IF bestMatch.similarity.n > 0 THEN bestMatch.path
                  ELSE existingCategories[1]
    ELSE finalCategory

\* the target path written when no correction applies
ResolvedCategory(cfg, root, existingCategories, rawCategory) ==
    LET parts == CategoryParts(rawCategory)
        limited == DepthLimited(cfg, rawCategory)
        inVocabulary == VocabularyEnforced(cfg, root, limited)
        bounded == ChildrenLimited(cfg, root, existingCategories, parts, inVocabulary)
    IN  StripSlashes(StrictResolved(cfg, root, existingCategories, bounded))

\* an applyAnalysisResult that sends the learned path through the rules as if it
\* were the AI's suggestion
applyAnalysisResult_RulesOnCorrection(cfg, root, log, fileName, analysis, existingCategories) ==
    LET correction == findApplicableCorrection(log, fileName)
        category == IF correction # <<>> THEN correction[1].userChosen
                    ELSE RawCategory(analysis)
    IN  Proposal(ResolvedCategory(cfg, root, existingCategories, category),
                 analysis.summary, analysis.tags,
                 IF analysis.reasoning = <<>> THEN DefaultReasoning ELSE analysis.reasoning,
                 IF analysis.confidence = 0 THEN 80 ELSE analysis.confidence)

\* applyAnalysisResult: the proposal it hands to store.updateFileProposal
applyAnalysisResult(cfg, root, log, fileName, analysis, existingCategories) ==
    LET correction == findApplicableCorrection(log, fileName)
    IN  IF correction # <<>>
        THEN Proposal(StripSlashes(correction[1].userChosen), analysis.summary,
                      analysis.tags, LearnedReasoning, 95)
        ELSE Proposal(ResolvedCategory(cfg, root, existingCategories, RawCategory(analysis)),
                      analysis.summary, analysis.tags,
                      IF analysis.reasoning = <<>> THEN DefaultReasoning
                                                   ELSE analysis.reasoning,
                      IF analysis.confidence = 0 THEN 80 ELSE analysis.confidence)

(***************************************************************************)
(* The staging store (useStagingStore): its setters, as functions of the   *)
(* list of staged files.  An absent optional field is the empty sequence.  *)
(***************************************************************************)

\* a StagedFile as addFiles creates it; content stands for the bytes of the File,
\* path for its path property (Electron), which originalPath takes when there is one
StagedFile(id, name, content, path) ==
    [name |-> name, id |-> id, content |-> content, status |-> "pending",
     contentHash |-> <<>>, proposal |-> <<>>, error |-> <<>>,
     originalPath |-> IF path # <<>> THEN path ELSE name, userEdit |-> <<>>]

\* addFiles(newFiles): the new files are appended, with fresh ids from firstId on
addFiles(staged, newFiles, firstId) ==
    staged \o [j \in 1..Len(newFiles) |->
                  StagedFile(firstId + j - 1, newFiles[j].name, newFiles[j].content,
                             newFiles[j].path)]

\* updateFileStatus(id, status, error)
updateFileStatus(staged, id, status, error) ==
    [j \in 1..Len(staged) |->
        IF staged[j].id = id
        THEN [staged[j] EXCEPT !.status = status, !.error = error]
        ELSE staged[j]]

\* updateFileHash(id, hash)
updateFileHash(staged, id, hash) ==
    [j \in 1..Len(staged) |->
        IF staged[j].id = id THEN [staged[j] EXCEPT !.contentHash = hash] ELSE staged[j]]

\* updateFileProposal that adds the file when the store does not hold the id
updateFileProposal_Upserts(staged, id, proposal) ==
    IF \E j \in 1..Len(staged) : staged[j].id = id
    THEN [j \in 1..Len(staged) |->
             IF staged[j].id = id
             THEN [staged[j] EXCEPT !.proposal = <<proposal>>, !.status = "success"]
             ELSE staged[j]]
    ELSE Append(staged, [id |-> id, status |-> "success", proposal |-> <<proposal>>])

\* updateFileProposal(id, proposal): the proposal is stored and the status set
updateFileProposal(staged, id, proposal) ==
    [j \in 1..Len(staged) |->
        IF staged[j].id = id
        THEN [staged[j] EXCEPT !.proposal = <<proposal>>, !.status = "success"]
        ELSE staged[j]]

\* a userEdit without any field; an optional field is <<>> or a list of its value
NoEdit == [targetPath |-> <<>>, tags |-> <<>>]

\* updateUserEdit(id, edit): the fields of edit that are present replace those of
\* the file's userEdit ({...f.userEdit, ...edit}); the summary field, free text that
\* no decision reads, is left out
updateUserEdit(staged, id, edit) ==
    [j \in 1..Len(staged) |->
        IF staged[j].id = id
        THEN LET before == IF staged[j].userEdit = <<>> THEN NoEdit ELSE staged[j].userEdit[1]
             IN  [staged[j] EXCEPT !.userEdit =
                     <<[targetPath |-> IF edit.targetPath # <<>> THEN edit.targetPath
                                       ELSE before.targetPath,
                        tags |-> IF edit.tags # <<>> THEN edit.tags ELSE before.tags]>>]
        ELSE staged[j]]

\* removeFile(id) and batchRemoveFiles(), on the list of files
removeFiles(staged, ids) == SelectSeq(staged, LAMBDA f : f.id \notin ids)

\* toggleFileSelection(id, multiSelect): the new selectedFileIds
toggleFileSelection(selected, id, multiSelect) ==
    LET newSet == IF multiSelect THEN selected ELSE {}
    IN  IF id \in newSet THEN newSet \ {id} ELSE newSet \cup {id}

\* file.userEdit?.targetPath || file.proposal?.targetPath: the first of the two that
\* is a non-empty string, <<>> when there is none
EffectiveTarget(file) ==
    IF file.userEdit # <<>> /\ file.userEdit[1].targetPath # <<>>
       /\ file.userEdit[1].targetPath[1] # <<>>
    THEN file.userEdit[1].targetPath[1]
    ELSE IF file.proposal # <<>> THEN file.proposal[1].targetPath
    ELSE <<>>

\* f.userEdit?.tags || f.proposal?.tags || []: an array, even empty, is truthy
EffectiveTags(file) ==
    IF file.userEdit # <<>> /\ file.userEdit[1].tags # <<>> THEN file.userEdit[1].tags[1]
    ELSE IF file.proposal # <<>> THEN file.proposal[1].tags
    ELSE <<>>

\* batchUpdateTargetPath(targetPath)
batchUpdateTargetPath(staged, selected, targetPath) ==
    [j \in 1..Len(staged) |->
        IF staged[j].id \in selected
        THEN updateUserEdit(staged, staged[j].id,
                            [targetPath |-> <<targetPath>>, tags |-> <<>>])[j]
        ELSE staged[j]]

\* a batchAddTag that appends the tag without looking for it
batchAddTag_Always(staged, selected, tag) ==
    [j \in 1..Len(staged) |->
        IF staged[j].id \in selected
        THEN updateUserEdit(staged, staged[j].id,
                 [targetPath |-> <<>>, tags |-> <<Append(EffectiveTags(staged[j]), tag)>>])[j]
        ELSE staged[j]]

\* batchAddTag(tag)
batchAddTag(staged, selected, tag) ==
    [j \in 1..Len(staged) |->
        IF staged[j].id \notin selected THEN staged[j]
        ELSE LET currentTags == EffectiveTags(staged[j])
             IN  IF ListIncludes(currentTags, tag) THEN staged[j]
                 ELSE updateUserEdit(staged, staged[j].id,
                          [targetPath |-> <<>>, tags |-> <<Append(currentTags, tag)>>])[j]]

\* a reanalyzeFiles that keeps what the user had edited
reanalyzeFiles_KeepsEdit(staged, fileIds, selected) ==
    LET idsToReanalyze == IF fileIds # <<>> THEN fileIds[1] ELSE selected
    IN  [j \in 1..Len(staged) |->
            IF staged[j].id \in idsToReanalyze
            THEN [staged[j] EXCEPT !.status = "pending", !.proposal = <<>>, !.error = <<>>]
            ELSE staged[j]]

\* reanalyzeFiles(fileIds): fileIds is <<>> when the argument is left out, and then
\* the selection is taken
reanalyzeFiles(staged, fileIds, selected) ==
    LET idsToReanalyze == IF fileIds # <<>> THEN fileIds[1] ELSE selected
    IN  IF idsToReanalyze = {} THEN staged
        ELSE [j \in 1..Len(staged) |->
                 IF staged[j].id \in idsToReanalyze
                 THEN [staged[j] EXCEPT !.status = "pending", !.proposal = <<>>,
                                        !.userEdit = <<>>, !.error = <<>>]
                 ELSE staged[j]]

(***************************************************************************)
(* The storage layer (fileStorage) and the content hash.                   *)
(***************************************************************************)

\* calculateFileHash: the MD5 digest of the content, equal for equal contents and
\* different for different ones
calculateFileHash(content) == <<"m", "d", "5", ":">> \o content

\* the persisted index: no file, a v1/v2 array of items, or a v3.0 object whose
\* files are keyed by content hash
NoIndex == [version |-> "none", entries |-> <<>>]
IndexEntry(key, originalName, category) ==
    [category |-> category, key |-> key, originalName |-> originalName]

\* storage.loadRawMetadata(): the parsed JSON as it is
loadRawMetadata(index) == index

\* storage.loadAllItems(): ElectronStorage turns a v3.0 object into an array of
\* items and anything else that is no array into []; WebStorage returns the parsed
\* JSON, [] without data
loadAllItems(isElectron, index) ==
    IF isElectron
    THEN [version |-> "array", entries |-> index.entries]
    ELSE IF index.version = "none" THEN [version |-> "array", entries |-> <<>>]
         ELSE index

\* [...new Set(list)]: the first occurrence of each element, in order
RECURSIVE Distinct(_)
Distinct(list) ==
    IF list = <<>> THEN <<>>
    ELSE LET front == Distinct(SubSeq(list, 1, Len(list) - 1))
             last == list[Len(list)]
         IN  IF ListIncludes(front, last) THEN front ELSE Append(front, last)

\* the categories of the index entries, .filter(Boolean)
EntryCategories(entries) ==
    FilterBoolean([j \in 1..Len(entries) |-> entries[j].category])

(***************************************************************************)
(* BatchProcessor.processFiles, between its awaits.  A run is one call:    *)
(* pc names the await it is suspended at.                                  *)
(***************************************************************************)

\* s.endsWith(suffix)
EndsWith(s, suffix) ==
    Len(s) >= Len(suffix) /\ SubSeq(s, Len(s) - Len(suffix) + 1, Len(s)) = suffix

\* file.file.name.toLowerCase().endsWith('.pdf')
IsPdfName(name) == EndsWith(ToLowerCase(name), <<".", "p", "d", "f">>)

\* the fixed target of a duplicate: "already exists / skip"
SkipTarget == <<"yi", "cun", "zai", "/", "tiao", "guo">>

\* the name shown when the index entry is not found: "unknown file"
UnknownFile == <<"wei", "zhi", "wen", "jian">>

\* the tags of a duplicate
ExactDuplicateTags == <<<<"wan", "quan", "chong", "fu">>>>
RenamedDuplicateTags == <<<<"nei", "rong", "chong", "fu">>, <<"bu", "tong", "wen", "jian", "ming">>>>

\* the proposal of a duplicate; the summary names the indexed file, the reasoning
\* both names
DuplicateProposal(fileName, existingFileName) ==
    LET isSameName == existingFileName = fileName
    IN  Proposal(SkipTarget,
                 IF isSameName THEN <<"wan", "quan", "chong", "fu">>
                 ELSE <<"yi", "you", " ">> \o existingFileName,
                 IF isSameName THEN ExactDuplicateTags ELSE RenamedDuplicateTags,
                 IF isSameName THEN <<"M", "D", "5">>
                 ELSE <<"M", "D", "5">> \o <<":">> \o fileName \o <<" ", "v", "s", " ">>
                          \o existingFileName,
                 100)

\* the name of the indexed file of this hash, as the duplicate branch finds it in
\* what loadAllItems returned
ExistingFileName(rawData, hash) ==
    IF rawData.version = "3.0"
    THEN LET hits == {j \in 1..Len(rawData.entries) : rawData.entries[j].key = hash}
         IN  IF hits = {} THEN UnknownFile
             ELSE LET existingFile == rawData.entries[CHOOSE j \in hits : TRUE]
                  IN  IF existingFile.originalName # <<>>
                      THEN existingFile.originalName ELSE UnknownFile
    ELSE UnknownFile

\* the marker of a capability error, "notSupported", in the source's two spellings
NotSupportedMark == <<"bu", "zhi", "chi">>
NotSupportMarkEnglish == <<"n", "o", "t", " ", "s", "u", "p", "p", "o", "r", "t">>

\* the messages of the errors thrown inside processFiles
MsgHashFailed == <<"wen", "jian", "du", "qu", "shi", "bai">>
MsgReadFailed == <<"F", "a", "i", "l", "e", "d", " ", "t", "o", " ", "r", "e", "a", "d">>
MsgDeepSeekVision == <<"D", "e", "e", "p", "S", "e", "e", "k">> \o <<" ">> \o NotSupportedMark \o <<" ", "V", "i", "s", "i", "o", "n">>
MsgDeepSeekPdf == <<"D", "e", "e", "p", "S", "e", "e", "k">> \o <<" ">> \o NotSupportedMark \o <<" ", "P", "D", "F">>
MsgProvider == <<"F", "a", "i", "l", "e", "d", " ", "t", "o", " ", "f", "e", "t", "c", "h">>

\* the tag of the capability proposal: "model does not support"
ModelLimitTag == <<"mo", "xing">> \o NotSupportedMark

\* the proposal written when the provider does not support the file's type
ModelLimitProposal(errorMessage) ==
    LET isDeepSeek == Includes(ToLowerCase(errorMessage), <<"d", "e", "e", "p", "s", "e", "e", "k">>)
    IN  Proposal(Uncategorized \o <<"/", "E", "r", "r", "o", "r">>,
                 ModelLimitTag \o <<":", " ">> \o errorMessage,
                 <<ModelLimitTag, IF isDeepSeek THEN <<"D", "e", "e", "p", "S", "e", "e", "k">> ELSE <<"C", "o", "m", "p", "a", "t">>>>,
                 <<"L", "i", "m", "i", "t", ":", " ">> \o errorMessage,
                 0)

\* the proposal written to every file when no API key is configured
NoApiKeyProposal ==
    Proposal(Uncategorized, <<"wei", "pei", "zhi", " ", "K", "e", "y">>, <<<<"xu", "pei", "zhi", "A", "P", "I">>>>, <<"wei", "jian", "ce", "dao">>, 0)

\* the analysis used when the content of an image or a PDF could not be read
ReadFailedAnalysis ==
    [summary |-> <<"wu", "fa", "du", "qu">>, tags |-> <<<<"du", "qu", "shi", "bai">>>>,
     reasoning |-> <<"R", "e", "a", "d", " ", "F", "a", "i", "l", "e", "d">>, confidence |-> 0,
     category |-> PathUnclassified]

\* this.applyAnalysisResult(file, analysis, store, existingCategories)
ApplyTo(cfg, root, log, staged, file, analysis, existingCategories) ==
    updateFileProposal(staged, file.id,
        applyAnalysisResult(cfg, root, log, file.name, analysis, existingCategories))

\* the catch of Phase 2 for one file
Phase2Catch(staged, id, errorMessage) ==
    IF \/ Includes(errorMessage, NotSupportedMark)
       \/ Includes(ToLowerCase(errorMessage), NotSupportMarkEnglish)
    THEN updateFileProposal(staged, id, ModelLimitProposal(errorMessage))
    ELSE updateFileStatus(staged, id, "error", <<"A", "n", "a", "l", "y", "s", "i", "s", " ", "E", "r", "r", "o", "r", ":", " ">> \o errorMessage)

\* what handling a Need_Info file throws, <<>> when nothing.  read is what reading
\* the content gave: "data", "empty" or "rejected"; reply is what the provider gives
\* when it is asked: a list of one analysis, or <<>> for a failed request
NeedInfoThrown(run, file, requestType, read, reply) ==
    LET isPdf == IsPdfName(file.name)
        asBase64 == requestType = "image_vision" \/ isPdf
        sentType == IF isPdf THEN "pdf_document" ELSE requestType
    IN  IF asBase64 /\ read = "rejected" THEN MsgReadFailed
        ELSE IF asBase64 /\ read = "empty" THEN <<>>
        ELSE IF run.config = "deepseek" /\ sentType = "image_vision" THEN MsgDeepSeekVision
        ELSE IF run.config = "deepseek" /\ isPdf THEN MsgDeepSeekPdf
        ELSE IF reply = <<>> THEN MsgProvider
        ELSE <<>>

\* a Need_Info file once its content is read and the provider has answered
NeedInfoHandled(cfg, root, log, staged, run, file, requestType, read, reply) ==
    LET isPdf == IsPdfName(file.name)
        asBase64 == requestType = "image_vision" \/ isPdf
        thrown == NeedInfoThrown(run, file, requestType, read, reply)
    IN  IF thrown # <<>> THEN Phase2Catch(staged, file.id, thrown)
        ELSE IF asBase64 /\ read = "empty"
        THEN ApplyTo(cfg, root, log, staged, file, ReadFailedAnalysis,
                     run.existingCategories)
        ELSE ApplyTo(cfg, root, log, staged, file, reply[1], run.existingCategories)

\* a call of processFiles at its first await: the snapshot of the files to process
\* and the AI configuration; caught lists the errors the two loops have caught, hash
\* is the hash of the file whose duplicate is looked up
NewRun(filesToProcess, aiConfig) ==
    [i |-> 0, k |-> 0, existingCategories |-> <<>>, hash |-> <<>>, config |-> aiConfig,
     filesToProcess |-> filesToProcess, pc |-> "load", existingHashes |-> {},
     filesToAnalyze |-> <<>>, response |-> <<>>, caught |-> <<>>]

\* what a step of processFiles leaves: the store's files and the run
Left(staged, run) == [run |-> run, files |-> staged]

\* the Phase 2 loop from the k-th file to analyze, up to the next await or the end
RECURSIVE Phase2From(_, _, _, _, _, _)
Phase2From(cfg, root, log, staged, run, k) ==
    IF k > Len(run.filesToAnalyze) THEN Left(staged, [run EXCEPT !.pc = "done"])
    ELSE LET file == run.filesToAnalyze[k]
             instruction == run.response[file.id]
         IN  IF instruction.instruction = "Direct"
             THEN Phase2From(cfg, root, log,
                             ApplyTo(cfg, root, log, staged, file, instruction.analysis,
                                     run.existingCategories),
                             run, k + 1)
             ELSE IF instruction.instruction = "Need_Info"
             THEN Left(staged, [run EXCEPT !.pc = "supplement", !.k = k])
             ELSE Phase2From(cfg, root, log, staged, run, k + 1)

\* updateFileProposal for each file to analyze, when no API key is configured
RECURSIVE NoApiKeyAll(_, _)
NoApiKeyAll(staged, filesToAnalyze) ==
    IF filesToAnalyze = <<>> THEN staged
    ELSE NoApiKeyAll(updateFileProposal(staged, Head(filesToAnalyze).id, NoApiKeyProposal),
                     Tail(filesToAnalyze))

\* a catch that reports the failure of the manifest call on the first file only
ManifestFailedAll_FirstOnly(staged, filesToAnalyze, errorMessage) ==
    IF filesToAnalyze = <<>> THEN staged
    ELSE updateFileStatus(staged, Head(filesToAnalyze).id, "error",
                          <<"A", "I", " ", "A", "n", "a", "l", "y", "s", "i", "s", " ", "F", "a", "i", "l", "e", "d", ":", " ">> \o errorMessage)

\* updateFileStatus(error) for each file to analyze, when the manifest call failed
RECURSIVE ManifestFailedAll(_, _, _)
ManifestFailedAll(staged, filesToAnalyze, errorMessage) ==
    IF filesToAnalyze = <<>> THEN staged
    ELSE ManifestFailedAll(
             updateFileStatus(staged, Head(filesToAnalyze).id, "error",
                              <<"A", "I", " ", "A", "n", "a", "l", "y", "s", "i", "s", " ", "F", "a", "i", "l", "e", "d", ":", " ">> \o errorMessage),
             Tail(filesToAnalyze), errorMessage)

\* after the preprocessing loop: nothing to analyze, the manifest call, or no key
AfterPreprocess(staged, run) ==
    IF run.filesToAnalyze = <<>> THEN Left(staged, [run EXCEPT !.pc = "done"])
    ELSE IF run.config # "none" THEN Left(staged, [run EXCEPT !.pc = "manifest"])
    ELSE Left(NoApiKeyAll(staged, run.filesToAnalyze), [run EXCEPT !.pc = "done"])

\* the preprocessing loop from the i-th file to process, up to the await of its hash;
\* the status tested is the one of the snapshot taken when the run started
RECURSIVE PreprocessFrom(_, _, _)
PreprocessFrom(staged, run, i) ==
    IF i > Len(run.filesToProcess) THEN AfterPreprocess(staged, run)
    ELSE IF run.filesToProcess[i].status # "pending" THEN PreprocessFrom(staged, run, i + 1)
    ELSE Left(updateFileStatus(staged, run.filesToProcess[i].id, "analyzing", <<>>),
              [run EXCEPT !.pc = "hash", !.i = i])

(***************************************************************************)
(* FileOpsService: the moves of a commit, the index they leave, and the    *)
(* undo.  The disk is the set of the files there are, each a path and its  *)
(* content.                                                                *)
(***************************************************************************)

\* a file on the disk
DiskFile(path, content) == [path |-> path, content |-> content]

\* is there a file at the path, and what it holds
Exists(disk, path) == \E e \in disk : e.path = path
ContentAt(disk, path) == (CHOOSE e \in disk : e.path = path).content

\* fs.rename(oldPath, newPath): the file is at the new path, in place of what was there
Renamed(disk, oldPath, newPath) ==
    {e \in disk : e.path # oldPath /\ e.path # newPath}
        \cup {DiskFile(newPath, ContentAt(disk, oldPath))}

\* path.split('/').pop(), path.replace(/^.*\//, ''): what follows the last slash
BaseName(path) == SplitSlash(path)[Len(SplitSlash(path))]

\* the mark of a duplicate's target, "skip"
SkipMark == <<"tiao", "guo">>

\* `${root}/${cleanTarget}/${fileName}`
FullTargetFile(rootPath, targetPath, fileName) ==
    rootPath \o <<"/">> \o StripLeading(targetPath) \o <<"/">> \o fileName

\* a MoveResult; error is <<>> when the move succeeded, and else names the message:
\* "noTarget" for '未指定目标路径', "noSource" for '无有效源文件路径...', "noRoot" for
\* 'Root path not set', "notSupported" for 'storage.moveFile not supported', and
\* "rejected" for the message of what ensureDir or moveFile threw
MoveResult(fileId, success, sourcePath, targetPath, error) ==
    [targetPath |-> targetPath, error |-> error, success |-> success, fileId |-> fileId,
     sourcePath |-> sourcePath]

\* what executeMove leaves: its result and the disk
Moved(result, disk) == [disk |-> disk, result |-> result]

\* an executeMove that takes the proposal's target whatever the user edited
executeMove_ProposalOnly(file, rootPath, hasMoveFile, disk, settled) ==
    LET sourcePath == file.originalPath
        targetPath == IF file.proposal # <<>> THEN file.proposal[1].targetPath ELSE <<>>
        fullTargetFile == FullTargetFile(rootPath, targetPath, file.name)
        failed == Moved(MoveResult(file.id, FALSE, sourcePath, targetPath, "rejected"), disk)
    IN  IF targetPath = <<>> \/ sourcePath = file.name \/ rootPath = <<>> THEN failed
        ELSE IF settled = "failed" \/ ~hasMoveFile \/ ~Exists(disk, sourcePath) THEN failed
        ELSE Moved(MoveResult(file.id, TRUE, sourcePath, fullTargetFile, <<>>),
                   Renamed(disk, sourcePath, fullTargetFile))

\* executeMove(file).  rootPath is localStorage's electron_root_path, <<>> when it is
\* not set; settled is "failed" when ensureDir or moveFile rejects
executeMove(file, rootPath, hasMoveFile, disk, settled) ==
    LET sourcePath == file.originalPath
        targetPath == EffectiveTarget(file)
        fullTargetFile == FullTargetFile(rootPath, targetPath, file.name)
        failed(error) == Moved(MoveResult(file.id, FALSE, sourcePath, targetPath, error),
                               disk)
    IN  IF targetPath = <<>> THEN failed("noTarget")
        ELSE IF sourcePath = <<>> \/ sourcePath = file.name THEN failed("noSource")
        ELSE IF rootPath = <<>> THEN failed("noRoot")
        ELSE IF settled = "failed" THEN failed("rejected")
        ELSE IF sourcePath = fullTargetFile
        THEN Moved(MoveResult(file.id, TRUE, sourcePath, fullTargetFile, <<>>), disk)
        ELSE IF ~hasMoveFile THEN failed("notSupported")
        ELSE IF ~Exists(disk, sourcePath) THEN failed("rejected")
        ELSE Moved(MoveResult(file.id, TRUE, sourcePath, fullTargetFile, <<>>),
                   Renamed(disk, sourcePath, fullTargetFile))

\* the files a commit takes: ready, not a duplicate's proposal, and selected when
\* there is a selection
FilesToCommit(staged, selectedIds) ==
    LET ready == SelectSeq(staged, LAMBDA f :
                     /\ f.status = "success"
                     /\ ~(f.proposal # <<>> /\ Includes(f.proposal[1].targetPath, SkipMark)))
    IN  IF selectedIds # {} THEN SelectSeq(ready, LAMBDA f : f.id \in selectedIds)
        ELSE ready

\* a call of executeCommit at the await of its first move
NewCommit(filesToCommit) ==
    [n |-> 1, pc |-> IF filesToCommit = <<>> THEN "finish" ELSE "move",
     filesToCommit |-> filesToCommit, results |-> <<>>, undoOperations |-> <<>>]

\* an operation of the undo log: source is where the commit put the file, target
\* where it was
UndoOperation(source, target) == [source |-> source, target |-> target]

\* metadata.files[stableKey] = entry: the entry of the key is replaced, or added
PutEntry(entries, entry) ==
    IF \E j \in 1..Len(entries) : entries[j].key = entry.key
    THEN [j \in 1..Len(entries) |-> IF entries[j].key = entry.key THEN entry ELSE entries[j]]
    ELSE Append(entries, entry)

\* the entries persistMetadata writes for the files moved
RECURSIVE PutCommitted(_, _, _)
PutCommitted(entries, filesToCommit, results) ==
    IF filesToCommit = <<>> THEN entries
    ELSE LET file == Head(filesToCommit)
             result == Head(results)
             stableKey == IF file.contentHash # <<>> THEN file.contentHash
                          ELSE BaseName(result.targetPath)
             category == IF EffectiveTarget(file) # <<>> THEN EffectiveTarget(file)
                         ELSE Uncategorized
         IN  PutCommitted(IF result.success
                          THEN PutEntry(entries, IndexEntry(stableKey, file.name, category))
                          ELSE entries,
                          Tail(filesToCommit), Tail(results))

\* persistMetadata(files, results): what loadAllItems gives is kept when it is a
\* v3.0 object and replaced by an empty v3.0 index when it is not
persistMetadata(isElectron, index, filesToCommit, results) ==
    LET loaded == loadAllItems(isElectron, index)
        metadata == IF loaded.version = "3.0" THEN loaded
                    ELSE [version |-> "3.0", entries |-> <<>>]
    IN  [version |-> "3.0", entries |-> PutCommitted(metadata.entries, filesToCommit, results)]

\* a File object: its name, its path property (<<>> without one) and its bytes
FileObject(name, path, content) == [name |-> name, path |-> path, content |-> content]

\* new File([], fileName) with its path property set: the file executeUndo re-adds
MockFile(path) == FileObject(BaseName(path), path, <<>>)

\* what a replay of the undo log leaves: the disk, the files re-added to the store,
\* and for each operation what came of it
Replayed(disk, readded, outcomes) ==
    [disk |-> disk, readded |-> readded, outcomes |-> outcomes]

\* a replay that gives up at the first operation whose file is missing
RECURSIVE ReplayUndo_StopsAtMissing(_, _, _, _, _)
ReplayUndo_StopsAtMissing(operations, hasMoveFile, disk, failing, n) ==
    IF n > Len(operations) THEN Replayed(disk, <<>>, <<>>)
    ELSE LET op == operations[n]
         IN  IF ~Exists(disk, op.source) THEN Replayed(disk, <<>>, <<"missing">>)
             ELSE LET rest == ReplayUndo_StopsAtMissing(operations, hasMoveFile,
                                  Renamed(disk, op.source, op.target), failing, n + 1)
                  IN  Replayed(rest.disk,
                               <<MockFile(op.target)>> \o rest.readded,
                               <<"moved">> \o rest.outcomes)

\* a replay that re-adds the file of every operation, moved or not
RECURSIVE ReplayUndo_ReaddsAll(_, _, _, _, _)
ReplayUndo_ReaddsAll(operations, hasMoveFile, disk, failing, n) ==
    IF n > Len(operations) THEN Replayed(disk, <<>>, <<>>)
    ELSE LET op == operations[n]
             outcome == IF ~hasMoveFile THEN "none"
                        ELSE IF ~Exists(disk, op.source) THEN "missing"
                        ELSE IF n \in failing THEN "failed"
                        ELSE "moved"
             rest == ReplayUndo_ReaddsAll(operations, hasMoveFile,
                         IF outcome = "moved" THEN Renamed(disk, op.source, op.target)
                         ELSE disk,
                         failing, n + 1)
         IN  Replayed(rest.disk, <<MockFile(op.target)>> \o rest.readded,
                      <<outcome>> \o rest.outcomes)

\* the loop of executeUndo from the n-th operation on.  failing holds the positions
\* of the operations whose ensureDir or moveFile rejects.  A file moved back is
\* re-added to the store as an empty File of its name, with its path
RECURSIVE ReplayUndo(_, _, _, _, _)
ReplayUndo(operations, hasMoveFile, disk, failing, n) ==
    IF n > Len(operations) THEN Replayed(disk, <<>>, <<>>)
    ELSE LET op == operations[n]
             outcome == IF ~hasMoveFile THEN "none"
                        ELSE IF ~Exists(disk, op.source) THEN "missing"
                        ELSE IF n \in failing THEN "failed"
                        ELSE "moved"
             rest == ReplayUndo(operations, hasMoveFile,
                                IF outcome = "moved" THEN Renamed(disk, op.source, op.target)
                                ELSE disk,
                                failing, n + 1)
         IN  Replayed(rest.disk,
                      (IF outcome = "moved"
                       THEN <<MockFile(op.target)>>
                       ELSE <<>>) \o rest.readded,
                      <<outcome>> \o rest.outcomes)

\* how many of the outcomes are the given ones
Count(outcomes, which) == Len(SelectSeq(outcomes, LAMBDA o : o \in which))

\* calculateFileHash reads the file at the path when there is one (Electron), and
\* the bytes of the File object when there is none or the read fails
HashedContent(isElectron, disk, file) ==
    IF isElectron /\ file.originalPath # file.name /\ Exists(disk, file.originalPath)
    THEN ContentAt(disk, file.originalPath)
    ELSE file.content

(***************************************************************************)
(* Bounds and input pools.                                                 *)
(***************************************************************************)

\* the longest AI suggestion, in pieces (a word or a slash)
MaxPieces == 3

\* the longest existingCategories list
MaxExisting == 2

\* the largest maxDepth and maxChildren a user sets
MaxConfigDepth == 2
MaxConfigChildren == 2

\* the most categories added to the default tree
MaxAdded == 1

\* the most corrections recorded
MaxCorrections == 1

Work == Tail(PathWork)
Finance == <<"F", "i", "n", "a", "n", "c", "e">>
Travel == <<"T", "r", "a", "v", "e", "l">>
Slash == <<"/">>

Pieces == {Slash, Work, Finance, Travel}

RECURSIVE PieceStrings(_)
PieceStrings(n) ==
    IF n = 0 THEN {<<>>}
    ELSE PieceStrings(n - 1) \cup {s \o p : s \in PieceStrings(n - 1), p \in Pieces}

\* the categories an AI provider suggests
Suggestions == PieceStrings(MaxPieces)

WorkFinance == Work \o Slash \o Finance
WorkTravel == Work \o Slash \o Travel

\* categories found in the index and in the folders
CategoryPool == {WorkFinance, WorkTravel, PathWork}

RECURSIVE ListsOver(_, _)
ListsOver(pool, n) ==
    IF n = 0 THEN {<<>>}
    ELSE ListsOver(pool, n - 1) \cup
         {Append(l, c) : l \in ListsOver(pool, n - 1), c \in pool}

\* existingCategories comes out of a Set: no entry twice
ExistingLists ==
    {l \in ListsOver(CategoryPool, MaxExisting) :
        \A i, j \in 1..Len(l) : i # j => l[i] # l[j]}

VocabularyPool == {<<>>, <<Finance>>}

ConfigPool ==
    [mode : {"strict", "flexible"}, maxDepth : 1..MaxConfigDepth,
     maxChildren : 1..MaxConfigChildren, categoryVocabulary : VocabularyPool]

NameReport == <<"r", "e", "p", "o", "r", "t", ".", "p", "d", "f">>
NameReportV2 == <<"r", "e", "p", "o", "r", "t", "_", "v", "2", ".", "p", "d", "f">>
FileNames == {NameReport, NameReportV2}

\* what a user chooses in a correction
UserChoices == {Slash \o WorkTravel \o Slash \o Finance \o Slash}

\* the most files ever staged
MaxFiles == 2

\* the most calls of processFiles
MaxRuns == 1

\* localStorage's electron_root_path, and the folder the user drops files from
RootPath == <<"/", "k", "b">>
Inbox == <<"/", "i", "n">>
InboxPath(name) == Inbox \o <<"/">> \o name

ContentA == <<"a">>
ContentB == <<"b">>
NameNotes == <<"n", "o", "t", "e", "s", ".", "t", "x", "t">>

\* the files a user drops: two of the same content, one of another
DroppedFiles ==
    { FileObject(NameReport, InboxPath(NameReport), ContentA),
      FileObject(NameReportV2, InboxPath(NameReportV2), ContentA),
      FileObject(NameNotes, InboxPath(NameNotes), ContentB) }

\* the File objects of the browser have no path
WithoutPath(batch) == [j \in 1..Len(batch) |-> [batch[j] EXCEPT !.path = <<>>]]

\* the disk before anything is moved: the dropped files are where they were dropped from
InboxDisk == {DiskFile(f.path, f.content) : f \in DroppedFiles}

\* the batches of files staged at once
Batches == ListsOver(DroppedFiles, MaxFiles) \ {<<>>}

\* an index left by a commit of report.pdf into Work/Finance
IndexedReport ==
    [version |-> "3.0",
     entries |-> <<IndexEntry(calculateFileHash(ContentA), NameReport, WorkFinance)>>]

\* a v1/v2 index: an array of items, which have a category and no hash key
LegacyIndex ==
    [version |-> "array", entries |-> <<IndexEntry(<<>>, <<>>, WorkFinance)>>]

\* the AI configuration in localStorage: no API key, or the provider
Providers == {"none", "gemini", "deepseek"}

\* the folders scanDirectory finds under the root
FolderPool == {<<>>, <<Work, WorkTravel>>}

\* an AI analysis of the given category
Analysis(category) ==
    [summary |-> <<"s", "u", "m">>, tags |-> <<<<"t", "a", "g">>>>, reasoning |-> <<>>, confidence |-> 0,
     category |-> category]

\* an item of the manifest answer; a file without an item, or with an instruction
\* that is neither Direct nor Need_Info, is "none"
Instruction(instruction, requestType, analysis) ==
    [analysis |-> analysis, requestType |-> requestType, instruction |-> instruction]

Instructions ==
    { Instruction("none", "", Analysis(<<>>)),
      Instruction("Direct", "", Analysis(WorkFinance)),
      Instruction("Need_Info", "text_preview", Analysis(<<>>)),
      Instruction("Need_Info", "image_vision", Analysis(<<>>)) }

\* what analyzeWithSupplements gives when the request is made: an analysis, or
\* nothing when the request fails
Replies == {<<>>, <<Analysis(WorkFinance)>>}

(***************************************************************************)
(* State.                                                                  *)
(***************************************************************************)
VARIABLES
    config,          \* TaxonomyService.config
    root,            \* TaxonomyService.root
    corrections,     \* the correction log
    applied,         \* the observed call of applyAnalysisResult: its arguments and
                     \* the proposal it wrote; <<>> before the call
    files,           \* useStagingStore.files
    workflowStatus,  \* useStagingStore.workflowStatus
    nextId,          \* the next fresh file id
    timers,          \* the batch triggers scheduled by setTimeout and not yet run
    runs,            \* the calls of processFiles, each suspended at an await or done
    isElectron,      \* storage.isElectron
    index,           \* the persisted index (knowledge_index.json, knowledge_items)
    provider,        \* the AI configuration (localStorage)
    selectedFileId,  \* useStagingStore.selectedFileId, 0 for null
    selectedFileIds, \* useStagingStore.selectedFileIds
    storeCall,       \* the observed call of a store action: its arguments and the
                     \* store before it; <<>> before the call
    disk,            \* the files on the disk
    undoLog,         \* FileOpsService.undoLog: <<>> for null, or a list of its operations
    undoLogFile,     \* .undo_log.json, likewise
    commits,         \* the calls of executeCommit, each suspended at an await or done
    undos            \* the calls of executeUndo: the log replayed and what was returned

taxonomyVars == <<config, root, corrections>>
stagingVars == <<files, workflowStatus, nextId, timers, runs>>
setupVars == <<isElectron, index, provider>>
selectionVars == <<selectedFileId, selectedFileIds>>
fileOpsVars == <<disk, undoLog, undoLogFile, commits, undos>>
reviewVars == <<selectedFileId, selectedFileIds, storeCall, disk, undoLog, undoLogFile,
                commits, undos>>
vars == <<config, root, corrections, applied, files, workflowStatus, nextId, timers,
          runs, isElectron, index, provider, selectedFileId, selectedFileIds, storeCall,
          disk, undoLog, undoLogFile, commits, undos>>

\* the services and the store as constructed
Constructed ==
    /\ config = DEFAULT_CONFIG
    /\ root = DEFAULT_TAXONOMY_ROOT
    /\ corrections = <<>>
    /\ applied = <<>>
    /\ files = <<>>
    /\ workflowStatus = "idle"
    /\ nextId = 1
    /\ timers = 0
    /\ runs = <<>>
    /\ selectedFileId = 0
    /\ selectedFileIds = {}
    /\ storeCall = <<>>
    /\ disk = InboxDisk
    /\ undoLog = <<>>
    /\ undoLogFile = <<>>
    /\ commits = <<>>
    /\ undos = <<>>

\* a fresh desktop installation without an API key
InitResolve ==
    /\ Constructed
    /\ isElectron = TRUE
    /\ index = NoIndex
    /\ provider = "none"

\* updateConfig(newConfig)
UpdateConfig ==
    /\ applied = <<>>
    /\ \E newConfig \in ConfigPool : config' = newConfig
    /\ UNCHANGED <<root, corrections, applied, stagingVars, setupVars, reviewVars>>

\* addCategory(name, parentPath)
AddCategory ==
    /\ applied = <<>>
    /\ Len(getAllCategoryPaths(root)) < Len(DEFAULT_TAXONOMY_ROOT) + MaxAdded
    /\ \E name \in {Finance}, parentPath \in {PathWork} :
          root' = addCategory(root, config, name, parentPath)
    /\ UNCHANGED <<config, corrections, applied, stagingVars, setupVars, reviewVars>>

\* recordCorrection(aiSuggested, userChosen, fileName)
RecordCorrection ==
    /\ applied = <<>>
    /\ Len(corrections) < MaxCorrections
    /\ \E userChosen \in UserChoices, fileName \in FileNames :
          corrections' = recordCorrection(corrections, Travel, userChosen, fileName)
    /\ UNCHANGED <<config, root, applied, stagingVars, setupVars, reviewVars>>

\* applyAnalysisResult(file, analysis, store, existingCategories), the observed call
ApplyAnalysisResult ==
    /\ applied = <<>>
    /\ \E fileName \in FileNames, category \in Suggestions, existing \in ExistingLists :
          applied' = << [fileName |-> fileName, analysis |-> Analysis(category),
                         existingCategories |-> existing,
                         proposal |-> applyAnalysisResult(config, root, corrections, fileName,
                                                          Analysis(category), existing)] >>
    /\ UNCHANGED <<config, root, corrections, stagingVars, setupVars, reviewVars>>

\* the service is set up, then one call is observed
NextResolve ==
    \/ UpdateConfig
    \/ AddCategory
    \/ RecordCorrection
    \/ ApplyAnalysisResult

SpecResolve == InitResolve /\ [][NextResolve]_vars

(***************************************************************************)
(* The pipeline: files are staged, a timer starts processFiles, and the    *)
(* call resumes at each of its awaits.                                     *)
(***************************************************************************)

\* the application starts on the desktop or in the browser, over the index an
\* earlier session left; only the desktop build writes a v3.0 index
Init ==
    /\ Constructed
    /\ isElectron \in BOOLEAN
    /\ index \in (IF isElectron THEN {NoIndex, LegacyIndex, IndexedReport}
                                ELSE {NoIndex, LegacyIndex})
    /\ provider \in Providers

\* what a resumed call leaves in the store: every return of processFiles is
\* preceded by setWorkflowStatus('reviewing')
Resume(r, left) ==
    /\ files' = left.files
    /\ runs' = [runs EXCEPT ![r] = left.run]
    /\ workflowStatus' = IF left.run.pc = "done" THEN "reviewing" ELSE workflowStatus
    /\ UNCHANGED <<taxonomyVars, applied, nextId, timers, setupVars, reviewVars>>

\* the dashboard is on screen
DashboardShown == workflowStatus # "idle"

\* files are dropped or picked: addFiles, the workflow leaves idle, and the batch
\* trigger is scheduled
StageFiles ==
    /\ \E batch \in Batches :
          /\ nextId - 1 + Len(batch) <= MaxFiles
          /\ files' = addFiles(files, IF isElectron THEN batch ELSE WithoutPath(batch),
                               nextId)
          /\ nextId' = nextId + Len(batch)
    /\ workflowStatus' = IF workflowStatus = "idle" THEN "reviewing" ELSE workflowStatus
    /\ timers' = timers + 1
    /\ UNCHANGED <<taxonomyVars, applied, runs, setupVars, reviewVars>>

\* the trigger runs: processFiles(pendingIds), up to its first await
ProcessPending ==
    /\ timers > 0
    /\ Len(runs) < MaxRuns
    /\ timers' = timers - 1
    /\ LET filesToProcess ==
               SelectSeq(files, LAMBDA f : f.status = "pending" /\ f.contentHash = <<>>)
       IN  runs' = Append(runs, NewRun(filesToProcess, provider))
    /\ UNCHANGED <<taxonomyVars, applied, files, workflowStatus, nextId, setupVars, reviewVars>>

\* the index and the folders are loaded; the preprocessing loop starts
MetadataLoaded ==
    \E r \in 1..Len(runs) :
        /\ runs[r].pc = "load"
        /\ \E folderCategories \in (IF isElectron THEN FolderPool ELSE {<<>>}) :
              LET rawData == loadRawMetadata(index)
                  existingHashes ==
                      IF rawData.version = "3.0"
                      THEN {rawData.entries[j].key : j \in 1..Len(rawData.entries)}
                      ELSE {}
                  existingCategories ==
                      Distinct(Distinct(EntryCategories(rawData.entries)) \o folderCategories)
                  run == [runs[r] EXCEPT !.existingHashes = existingHashes,
                                         !.existingCategories = existingCategories]
              IN  Resume(r, PreprocessFrom(files, run, 1))

\* calculateFileHash has settled for the current file: the duplicate check, then the
\* loop goes on; a rejected hash is caught inside the loop
FileHashed ==
    \E r \in 1..Len(runs) :
        /\ runs[r].pc = "hash"
        /\ \E settled \in {"resolved", "rejected"} :
              LET run == runs[r]
                  file == run.filesToProcess[run.i]
                  hash == calculateFileHash(HashedContent(isElectron, disk, file))
                  hashed == updateFileHash(files, file.id, hash)
              IN  IF settled = "rejected"
                  THEN Resume(r, PreprocessFrom(
                           updateFileStatus(files, file.id, "error", MsgHashFailed),
                           [run EXCEPT !.caught =
                               Append(@, [id |-> file.id, message |-> MsgHashFailed])],
                           run.i + 1))
                  ELSE IF hash \in run.existingHashes
                  THEN Resume(r, Left(updateFileStatus(hashed, file.id, "duplicate", <<>>),
                                      [run EXCEPT !.pc = "lookup", !.hash = hash]))
                  ELSE Resume(r, PreprocessFrom(
                           hashed,
                           [run EXCEPT !.filesToAnalyze = Append(@, file)],
                           run.i + 1))

\* loadAllItems has returned for a duplicate: its proposal is written, the loop goes on
DuplicateLookedUp ==
    \E r \in 1..Len(runs) :
        /\ runs[r].pc = "lookup"
        /\ LET run == runs[r]
               file == run.filesToProcess[run.i]
               rawData == loadAllItems(isElectron, index)
               existingFileName == ExistingFileName(rawData, run.hash)
           IN  Resume(r, PreprocessFrom(
                       updateFileProposal(files, file.id,
                                          DuplicateProposal(file.name, existingFileName)),
                       run, run.i + 1))

\* analyzeManifest has answered: Phase 2 up to the first file that needs information
ManifestAnswered ==
    \E r \in 1..Len(runs) :
        /\ runs[r].pc = "manifest"
        /\ LET ids == {runs[r].filesToAnalyze[j].id : j \in 1..Len(runs[r].filesToAnalyze)}
           IN  \E response \in [ids -> Instructions] :
                  Resume(r, Phase2From(config, root, corrections, files,
                                       [runs[r] EXCEPT !.response = response], 1))

\* analyzeManifest has failed: every file to analyze gets the error
ManifestFailed ==
    \E r \in 1..Len(runs) :
        /\ runs[r].pc = "manifest"
        /\ Resume(r, Left(ManifestFailedAll(files, runs[r].filesToAnalyze, MsgProvider),
                          [runs[r] EXCEPT !.pc = "done"]))

\* the content of a Need_Info file is read and the provider has answered or thrown
SupplementAnswered ==
    \E r \in 1..Len(runs) :
        /\ runs[r].pc = "supplement"
        /\ \E read \in {"data", "empty", "rejected"}, reply \in Replies :
              LET run == runs[r]
                  file == run.filesToAnalyze[run.k]
                  requestType == run.response[file.id].requestType
                  thrown == NeedInfoThrown(run, file, requestType, read, reply)
                  handled == NeedInfoHandled(config, root, corrections, files, run, file,
                                             requestType, read, reply)
                  noted == IF thrown = <<>> THEN run
                           ELSE [run EXCEPT !.caught =
                                    Append(@, [id |-> file.id, message |-> thrown])]
              IN  Resume(r, Phase2From(config, root, corrections, handled, noted,
                                       run.k + 1))

Next ==
    \/ StageFiles
    \/ ProcessPending
    \/ MetadataLoaded
    \/ FileHashed
    \/ DuplicateLookedUp
    \/ ManifestAnswered
    \/ ManifestFailed
    \/ SupplementAnswered

Spec == Init /\ [][Next]_vars

(***************************************************************************)
(* The store under the dashboard: selection, edits and the batch actions.  *)
(* One call of reanalyzeFiles or of a batch action is observed.            *)
(***************************************************************************)

\* the ids of the files in the store
FileIds == {files[j].id : j \in 1..Len(files)}

\* what the user types or picks in the editor of the selected file: the root as the
\* target, a category as the target, all tags removed
Edits ==
    { [targetPath |-> <<<<>>>>, tags |-> <<>>],
      [targetPath |-> <<WorkTravel>>, tags |-> <<>>],
      [targetPath |-> <<>>, tags |-> <<<<>>>>] }

\* the path and the tag typed into the batch fields
BatchPath == WorkTravel
BatchTag == <<"t", "a", "g">>

\* a click on a file of the list (plain, or with Ctrl/Cmd or on its checkbox)
ToggleFileSelection ==
    /\ storeCall = <<>>
    /\ DashboardShown
    /\ \E id \in FileIds, multiSelect \in BOOLEAN :
          /\ selectedFileIds' = toggleFileSelection(selectedFileIds, id, multiSelect)
          /\ selectedFileId' = id
    /\ UNCHANGED <<taxonomyVars, applied, stagingVars, setupVars, storeCall, fileOpsVars>>

\* selectAllFiles()
SelectAllFiles ==
    /\ storeCall = <<>>
    /\ DashboardShown
    /\ selectedFileIds' = FileIds
    /\ UNCHANGED <<taxonomyVars, applied, stagingVars, setupVars, selectedFileId, storeCall,
                   fileOpsVars>>

\* clearSelection()
ClearSelection ==
    /\ storeCall = <<>>
    /\ DashboardShown
    /\ selectedFileIds # {}
    /\ selectedFileIds' = {}
    /\ UNCHANGED <<taxonomyVars, applied, stagingVars, setupVars, selectedFileId, storeCall,
                   fileOpsVars>>

\* the editor of the selected file: updateUserEdit(selectedFile.id, edit)
UpdateUserEdit ==
    /\ storeCall = <<>>
    /\ DashboardShown
    /\ selectedFileId \in FileIds
    /\ \E edit \in Edits : files' = updateUserEdit(files, selectedFileId, edit)
    /\ UNCHANGED <<taxonomyVars, applied, workflowStatus, nextId, timers, runs, setupVars,
                   reviewVars>>

\* an observed call: the store before it (files, selection, workflow status), the
\* action and its argument
StoreCall(op, argument) ==
    [status |-> workflowStatus, before |-> files, selected |-> selectedFileIds, op |-> op,
     argument |-> argument]

\* reanalyzeFiles(fileIds), with the argument left out or any set of ids
ReanalyzeFiles ==
    /\ storeCall = <<>>
    /\ \E fileIds \in {<<>>} \cup {<<ids>> : ids \in SUBSET FileIds} :
          /\ files' = reanalyzeFiles(files, fileIds, selectedFileIds)
          /\ storeCall' = <<StoreCall("reanalyzeFiles", fileIds)>>
    /\ UNCHANGED <<taxonomyVars, applied, workflowStatus, nextId, timers, runs, setupVars,
                   selectionVars, fileOpsVars>>

\* batchUpdateTargetPath(batchPath); the field is shown for two selected files or more
BatchUpdateTargetPath ==
    /\ storeCall = <<>>
    /\ DashboardShown
    /\ Cardinality(selectedFileIds) >= 2
    /\ files' = batchUpdateTargetPath(files, selectedFileIds, BatchPath)
    /\ storeCall' = <<StoreCall("batchUpdateTargetPath", BatchPath)>>
    /\ UNCHANGED <<taxonomyVars, applied, workflowStatus, nextId, timers, runs, setupVars,
                   selectionVars, fileOpsVars>>

\* batchAddTag(batchTag)
BatchAddTag ==
    /\ storeCall = <<>>
    /\ DashboardShown
    /\ Cardinality(selectedFileIds) >= 2
    /\ files' = batchAddTag(files, selectedFileIds, BatchTag)
    /\ storeCall' = <<StoreCall("batchAddTag", BatchTag)>>
    /\ UNCHANGED <<taxonomyVars, applied, workflowStatus, nextId, timers, runs, setupVars,
                   selectionVars, fileOpsVars>>

\* batchRemoveFiles(): the selected files leave the store, the selection is emptied
BatchRemoveFiles ==
    /\ storeCall = <<>>
    /\ DashboardShown
    /\ selectedFileIds # {}
    /\ files' = removeFiles(files, selectedFileIds)
    /\ selectedFileIds' = {}
    /\ selectedFileId' = IF selectedFileId \in selectedFileIds THEN 0 ELSE selectedFileId
    /\ storeCall' = <<StoreCall("batchRemoveFiles", <<>>)>>
    /\ UNCHANGED <<taxonomyVars, applied, workflowStatus, nextId, timers, runs, setupVars,
                   fileOpsVars>>

\* the three dropped files staged and hashed
StagedThree ==
    LET batch == <<FileObject(NameReport, InboxPath(NameReport), ContentA),
                   FileObject(NameReportV2, InboxPath(NameReportV2), ContentA),
                   FileObject(NameNotes, InboxPath(NameNotes), ContentB)>>
        staged == addFiles(<<>>, batch, 1)
    IN  [j \in 1..3 |->
            updateFileHash(staged, j, calculateFileHash(staged[j].content))[j]]

\* an answer of the AI whose tags name one tag twice
RepeatingAnalysis ==
    [Analysis(WorkFinance) EXCEPT !.tags = <<BatchTag, BatchTag>>]

\* what processFiles has made of a staged file: a proposal from a Direct answer
\* ("ready"), one whose tags repeat ("repeating"), one of the root ("rooted"), the
\* error of a failed manifest call ("failed"), a duplicate's proposal ("skipped"), or
\* nothing yet ("pending")
Processed(file, outcome) ==
    LET one == <<file>>
    IN  IF outcome = "ready"
        THEN ApplyTo(DEFAULT_CONFIG, DEFAULT_TAXONOMY_ROOT, <<>>, one, file,
                     Analysis(WorkFinance), <<WorkFinance>>)[1]
        ELSE IF outcome = "repeating"
        THEN ApplyTo(DEFAULT_CONFIG, DEFAULT_TAXONOMY_ROOT, <<>>, one, file,
                     RepeatingAnalysis, <<WorkFinance>>)[1]
        ELSE IF outcome = "rooted"
        THEN ApplyTo(DEFAULT_CONFIG, DEFAULT_TAXONOMY_ROOT, <<>>, one, file,
                     Analysis(WorkFinance), <<>>)[1]
        ELSE IF outcome = "failed"
        THEN ManifestFailedAll(one, one, MsgProvider)[1]
        ELSE IF outcome = "skipped"
        THEN updateFileProposal(one, file.id, DuplicateProposal(file.name, UnknownFile))[1]
        ELSE file

\* a handled file after the review of the user, who has edited its target
\* (edit = <<targetPath>>) or has not (edit = <<>>)
Reviewed(file, outcome, edit) ==
    IF edit = <<>> THEN Processed(file, outcome)
    ELSE updateUserEdit(<<Processed(file, outcome)>>, file.id,
                        [targetPath |-> edit, tags |-> <<>>])[1]

\* the stores the dashboard is opened on
StoreOutcomes ==
    { <<"ready", "failed", "pending">>,
      <<"repeating", "ready", "skipped">>,
      <<"ready", "repeating", "ready">> }

\* the dashboard over three files that processFiles has handled
InitStore ==
    /\ config = DEFAULT_CONFIG
    /\ root = DEFAULT_TAXONOMY_ROOT
    /\ corrections = <<>>
    /\ applied = <<>>
    /\ \E outcomes \in StoreOutcomes :
          files = [j \in 1..3 |-> Processed(StagedThree[j], outcomes[j])]
    /\ workflowStatus = "reviewing"
    /\ nextId = 4
    /\ timers = 0
    /\ runs = <<>>
    /\ isElectron = TRUE
    /\ index = NoIndex
    /\ provider = "gemini"
    /\ selectedFileId = 0
    /\ selectedFileIds = {}
    /\ storeCall = <<>>
    /\ disk = InboxDisk
    /\ undoLog = <<>>
    /\ undoLogFile = <<>>
    /\ commits = <<>>
    /\ undos = <<>>

NextStore ==
    \/ ToggleFileSelection
    \/ SelectAllFiles
    \/ ClearSelection
    \/ UpdateUserEdit
    \/ ReanalyzeFiles
    \/ BatchUpdateTargetPath
    \/ BatchAddTag
    \/ BatchRemoveFiles

SpecStore == InitStore /\ [][NextStore]_vars

(***************************************************************************)
(* Commit and undo, from the dashboard's buttons.                          *)
(***************************************************************************)

\* the most calls of executeCommit and of executeUndo
MaxCommits == 2
MaxUndos == 2

\* localStorage.getItem('electron_root_path'): set on the desktop only
RootPathSet == IF isElectron THEN RootPath ELSE <<>>

\* removeFile(id): the file leaves the store and the selection
RemoveFromStore(id) ==
    /\ files' = removeFiles(files, {id})
    /\ selectedFileIds' = selectedFileIds \ {id}
    /\ selectedFileId' = IF selectedFileId = id THEN 0 ELSE selectedFileId

\* "Execute": executeCommit(selection, if any) up to its first await.  The button is
\* disabled while a commit runs and while no file is ready
ExecuteCommit ==
    /\ DashboardShown
    /\ Len(commits) < MaxCommits
    /\ \A c \in 1..Len(commits) : commits[c].pc = "done"
    /\ \E j \in 1..Len(files) : files[j].status = "success"
    /\ commits' = Append(commits, NewCommit(FilesToCommit(files, selectedFileIds)))
    /\ workflowStatus' = "executing"
    /\ UNCHANGED <<taxonomyVars, applied, files, nextId, timers, runs, setupVars,
                   selectionVars, storeCall, disk, undoLog, undoLogFile, undos>>

\* a commit loop that ends at the first move that fails
Attempted_StopsAtFailure(commit, result) ==
    [commit EXCEPT
        !.n = @ + 1,
        !.pc = IF commit.n = Len(commit.filesToCommit) \/ ~result.success
               THEN "finish" ELSE "move",
        !.results = Append(@, result),
        !.undoOperations =
            IF result.success
            THEN Append(@, UndoOperation(result.targetPath, result.sourcePath))
            ELSE @]

\* a commit loop that logs the move as it was made, not its inverse
Attempted_NotReversed(commit, result) ==
    [commit EXCEPT
        !.n = @ + 1,
        !.pc = IF commit.n = Len(commit.filesToCommit) THEN "finish" ELSE "move",
        !.results = Append(@, result),
        !.undoOperations =
            IF result.success
            THEN Append(@, UndoOperation(result.sourcePath, result.targetPath))
            ELSE @]

\* the commit after one turn of its loop: the result is recorded, a move that
\* succeeded gives an undo operation, and the loop goes on to the next file
Attempted(commit, result) ==
    [commit EXCEPT
        !.n = @ + 1,
        !.pc = IF commit.n = Len(commit.filesToCommit) THEN "finish" ELSE "move",
        !.results = Append(@, result),
        !.undoOperations =
            IF result.success
            THEN Append(@, UndoOperation(result.targetPath, result.sourcePath))
            ELSE @]

\* executeMove has returned for the current file of the commit: a moved file joins
\* the undo operations and leaves the store
MoveSettled ==
    \E c \in 1..Len(commits) :
        /\ commits[c].pc = "move"
        /\ \E settled \in {"done", "failed"} :
              LET commit == commits[c]
                  file == commit.filesToCommit[commit.n]
                  moved == executeMove(file, RootPathSet, isElectron, disk, settled)
                  result == moved.result
              IN  /\ disk' = moved.disk
                  /\ commits' = [commits EXCEPT ![c] = Attempted(commit, result)]
                  /\ IF result.success THEN RemoveFromStore(file.id)
                     ELSE UNCHANGED <<files, selectionVars>>
        /\ UNCHANGED <<taxonomyVars, applied, workflowStatus, nextId, timers, runs,
                       setupVars, storeCall, undoLog, undoLogFile, undos>>

\* the loop of the commit is over: the index and the undo log are written and the
\* workflow goes to done, or back to reviewing when a move failed
CommitFinished ==
    \E c \in 1..Len(commits) :
        /\ commits[c].pc = "finish"
        /\ LET commit == commits[c]
               failCount == Len(SelectSeq(commit.results, LAMBDA r : ~r.success))
           IN  /\ index' = IF commit.undoOperations # <<>>
                           THEN persistMetadata(isElectron, index, commit.filesToCommit,
                                                commit.results)
                           ELSE index
               /\ undoLog' = <<commit.undoOperations>>
               /\ undoLogFile' = IF isElectron THEN <<commit.undoOperations>>
                                 ELSE undoLogFile
               /\ workflowStatus' = IF failCount > 0 THEN "reviewing" ELSE "done"
               /\ commits' = [commits EXCEPT ![c] = [commit EXCEPT !.pc = "done"]]
        /\ UNCHANGED <<taxonomyVars, applied, files, nextId, timers, runs, isElectron,
                       provider, selectionVars, storeCall, disk, undos>>

\* a call of executeUndo that had a log to replay: the log, the disk it found, what
\* came of each operation and the counts it returned
UndoCall(operations, before, outcomes) ==
    [before |-> before, outcomes |-> outcomes, operations |-> operations,
     failCount |-> Count(outcomes, {"missing", "failed"}),
     successCount |-> Count(outcomes, {"moved"})]

\* "Undo": executeUndo().  The log in memory is taken, or the one of the file when
\* there is none; it is replayed and forgotten
ExecuteUndo ==
    /\ DashboardShown
    /\ Len(undos) < MaxUndos
    /\ LET log == IF undoLog # <<>> THEN undoLog
                  ELSE IF isElectron THEN undoLogFile ELSE <<>>
       IN  IF log = <<>> \/ log[1] = <<>>
           THEN /\ undoLog' = log
                /\ UNCHANGED <<files, nextId, disk, undos>>
           ELSE \E failing \in SUBSET (1..Len(log[1])) :
                   LET replayed == ReplayUndo(log[1], isElectron, disk, failing, 1)
                   IN  /\ disk' = replayed.disk
                       /\ files' = addFiles(files, replayed.readded, nextId)
                       /\ nextId' = nextId + Len(replayed.readded)
                       /\ undoLog' = <<>>
                       /\ undos' = Append(undos, UndoCall(log[1], disk, replayed.outcomes))
    /\ UNCHANGED <<taxonomyVars, applied, workflowStatus, timers, runs, setupVars,
                   selectionVars, storeCall, undoLogFile, commits>>

\* what the three files of a commit have come to: the outcome of processFiles and
\* the target the user has set, a category or the root, if any
CommitOutcomes ==
    { <<"ready", "ready", "ready">>,
      <<"ready", "rooted", "skipped">>,
      <<"ready", "failed", "ready">>,
      <<"rooted", "rooted", "ready">> }

CommitEdits ==
    { <<<<>>, <<>>, <<>>>>,
      <<<<WorkTravel>>, <<>>, <<<<>>>>>> }

\* the dashboard of the desktop build over three handled files, with any selection
InitCommit ==
    /\ config = DEFAULT_CONFIG
    /\ root = DEFAULT_TAXONOMY_ROOT
    /\ corrections = <<>>
    /\ applied = <<>>
    /\ \E outcomes \in CommitOutcomes, edits \in CommitEdits :
          files = [j \in 1..3 |-> Reviewed(StagedThree[j], outcomes[j], edits[j])]
    /\ workflowStatus = "reviewing"
    /\ nextId = 4
    /\ timers = 0
    /\ runs = <<>>
    /\ isElectron = TRUE
    /\ index = NoIndex
    /\ provider = "gemini"
    /\ selectedFileId = 0
    /\ selectedFileIds \in SUBSET (1..3)
    /\ storeCall = <<>>
    /\ disk = InboxDisk
    /\ undoLog = <<>>
    /\ undoLogFile = <<>>
    /\ commits = <<>>
    /\ undos = <<>>

NextCommit ==
    \/ ExecuteCommit
    \/ MoveSettled
    \/ CommitFinished
    \/ ExecuteUndo

SpecCommit == InitCommit /\ [][NextCommit]_vars

(***************************************************************************)
(* The review while the files are still being processed: the dashboard is  *)
(* shown from the moment the files are staged, and Execute is enabled as   *)
(* soon as one file is ready.                                              *)
(***************************************************************************)

\* "Back for now": handleTempReturn() keeps the files and shows the main view
HandleTempReturn ==
    /\ DashboardShown
    /\ workflowStatus' = "idle"
    /\ UNCHANGED <<taxonomyVars, applied, files, nextId, timers, runs, setupVars,
                   reviewVars>>

\* "Back to the review": the button of the main view while files are staged
ReturnToReview ==
    /\ ~DashboardShown
    /\ files # <<>>
    /\ workflowStatus' = "reviewing"
    /\ UNCHANGED <<taxonomyVars, applied, files, nextId, timers, runs, setupVars,
                   reviewVars>>

\* the two files dropped for the review
ReviewBatch ==
    <<FileObject(NameReport, InboxPath(NameReport), ContentA),
      FileObject(NameNotes, InboxPath(NameNotes), ContentB)>>

\* the desktop build, with an API key, when two files have just been dropped: they
\* are staged, the dashboard is shown and the batch trigger is scheduled
InitReview ==
    /\ config = DEFAULT_CONFIG
    /\ root = DEFAULT_TAXONOMY_ROOT
    /\ corrections = <<>>
    /\ applied = <<>>
    /\ files = addFiles(<<>>, ReviewBatch, 1)
    /\ workflowStatus = "reviewing"
    /\ nextId = 3
    /\ timers = 1
    /\ runs = <<>>
    /\ isElectron = TRUE
    /\ index \in {NoIndex, IndexedReport}
    /\ provider \in {"gemini", "deepseek"}
    /\ selectedFileId = 0
    /\ selectedFileIds = {}
    /\ storeCall = <<>>
    /\ disk = InboxDisk
    /\ undoLog = <<>>
    /\ undoLogFile = <<>>
    /\ commits = <<>>
    /\ undos = <<>>

NextReview ==
    \/ ProcessPending
    \/ MetadataLoaded
    \/ FileHashed
    \/ DuplicateLookedUp
    \/ ManifestAnswered
    \/ ManifestFailed
    \/ SupplementAnswered
    \/ HandleTempReturn
    \/ ReturnToReview
    \/ ExecuteCommit
    \/ MoveSettled
    \/ CommitFinished
    \/ ExecuteUndo

SpecReview == InitReview /\ [][NextReview]_vars

(***************************************************************************)
(* Commit, undo, and the restored files analyzed and committed again.      *)
(***************************************************************************)

\* the most clicks on "Reanalyze" beyond the calls of processFiles the batch
\* trigger may make
MaxReanalyses == 1

\* "Reanalyze": handleReanalyze() once confirmed.  reanalyzeFiles(selectedFileIds),
\* then processFiles(ids) up to its first await
HandleReanalyze ==
    /\ DashboardShown
    /\ selectedFileIds # {}
    /\ Len(runs) < MaxRuns + MaxReanalyses
    /\ LET reset == reanalyzeFiles(files, <<selectedFileIds>>, selectedFileIds)
           filesToProcess == SelectSeq(reset, LAMBDA f : f.id \in selectedFileIds)
       IN  /\ files' = reset
           /\ runs' = Append(runs, NewRun(filesToProcess, provider))
    /\ UNCHANGED <<taxonomyVars, applied, workflowStatus, nextId, timers, setupVars,
                   reviewVars>>

\* a call of processFiles that has returned after a Direct answer for each of its
\* files
FinishedRun(filesToProcess) ==
    [NewRun(filesToProcess, "gemini") EXCEPT
        !.pc = "done",
        !.i = Len(filesToProcess),
        !.existingCategories = <<WorkFinance>>,
        !.filesToAnalyze = filesToProcess,
        !.response = [id \in {filesToProcess[j].id : j \in 1..Len(filesToProcess)} |->
                         Instruction("Direct", "", Analysis(WorkFinance))]]

\* the dashboard of the desktop build over two files that a call of processFiles
\* has given a proposal, with an empty index
InitAgain ==
    /\ config = DEFAULT_CONFIG
    /\ root = DEFAULT_TAXONOMY_ROOT
    /\ corrections = <<>>
    /\ applied = <<>>
    /\ files = [j \in 1..2 |-> Processed(StagedThree[j + 1], "ready")]
    /\ workflowStatus = "reviewing"
    /\ nextId = 4
    /\ timers = 0
    /\ runs = <<FinishedRun([j \in 1..2 |-> [StagedThree[j + 1] EXCEPT !.contentHash = <<>>]])>>
    /\ isElectron = TRUE
    /\ index = NoIndex
    /\ provider = "gemini"
    /\ selectedFileId = 0
    /\ selectedFileIds = {}
    /\ storeCall = <<>>
    /\ disk = InboxDisk
    /\ undoLog = <<>>
    /\ undoLogFile = <<>>
    /\ commits = <<>>
    /\ undos = <<>>

NextAgain ==
    \/ ExecuteCommit
    \/ MoveSettled
    \/ CommitFinished
    \/ ExecuteUndo
    \/ SelectAllFiles
    \/ HandleReanalyze
    \/ MetadataLoaded
    \/ FileHashed
    \/ DuplicateLookedUp
    \/ ManifestAnswered
    \/ ManifestFailed
    \/ SupplementAnswered

SpecAgain == InitAgain /\ [][NextAgain]_vars

(***************************************************************************)
(* Two calls of processFiles at once, and files taken out of the store     *)
(* while a call is suspended: the batch trigger fires, and the user        *)
(* selects, reanalyzes, removes or cancels while the call awaits.          *)
(***************************************************************************)

\* "Cancel": handleCancel() once confirmed, clearAll()
HandleCancel ==
    /\ DashboardShown
    /\ files' = <<>>
    /\ selectedFileId' = 0
    /\ selectedFileIds' = {}
    /\ workflowStatus' = "idle"
    /\ UNCHANGED <<taxonomyVars, applied, nextId, timers, runs, setupVars, storeCall,
                   fileOpsVars>>

\* the desktop build, with an API key, when a file has just been dropped
InitOverlap ==
    /\ config = DEFAULT_CONFIG
    /\ root = DEFAULT_TAXONOMY_ROOT
    /\ corrections = <<>>
    /\ applied = <<>>
    /\ files = addFiles(<<>>, <<ReviewBatch[1]>>, 1)
    /\ workflowStatus = "reviewing"
    /\ nextId = 2
    /\ timers = 1
    /\ runs = <<>>
    /\ isElectron = TRUE
    /\ index \in {NoIndex, IndexedReport}
    /\ provider = "gemini"
    /\ selectedFileId = 0
    /\ selectedFileIds = {}
    /\ storeCall = <<>>
    /\ disk = InboxDisk
    /\ undoLog = <<>>
    /\ undoLogFile = <<>>
    /\ commits = <<>>
    /\ undos = <<>>

NextOverlap ==
    \/ ProcessPending
    \/ MetadataLoaded
    \/ FileHashed
    \/ DuplicateLookedUp
    \/ ManifestAnswered
    \/ ManifestFailed
    \/ SupplementAnswered
    \/ SelectAllFiles
    \/ HandleReanalyze
    \/ BatchRemoveFiles
    \/ HandleCancel

SpecOverlap == InitOverlap /\ [][NextOverlap]_vars

(***************************************************************************)
(* Properties of applyAnalysisResult, over the observed call.              *)
(***************************************************************************)
Called == applied # <<>>
Target == applied[1].proposal.targetPath
Suggested == applied[1].analysis.category
Existing == applied[1].existingCategories
CorrectionApplies == findApplicableCorrection(corrections, applied[1].fileName) # <<>>
Resolved == Called /\ ~CorrectionApplies

\* the non-empty segments of a path
Depth(path) == Len(CategoryParts(path))

\* membership up to leading and trailing slashes
IsMemberUpToSlashes(list, path) ==
    \E i \in 1..Len(list) : StripSlashes(list[i]) = StripSlashes(path)

\* C1: every target path the resolver writes has at most config.maxDepth segments,
\* in both modes.
C1_DepthBound == Resolved => Depth(Target) <= config.maxDepth

\* C2: in Strict mode with existing categories and no correction applying, the
\* target path is one of the existing categories, up to surrounding slashes.
C2_StrictMember ==
    (Resolved /\ config.mode = "strict" /\ Existing # <<>>)
        => IsMemberUpToSlashes(Existing, Target)

\* C3 as stated: in Strict mode a suggestion that is an existing category is
\* written unchanged.
C3_StrictExactAsStated ==
    (Resolved /\ config.mode = "strict" /\ ListIncludes(Existing, Suggested))
        => Target = Suggested

\* C3 amended: in Strict mode a suggestion that is an existing category, has at most
\* maxDepth segments and passes the vocabulary check is written with only its
\* surrounding slashes stripped.
C3_StrictExact ==
    (/\ Resolved
     /\ config.mode = "strict"
     /\ ListIncludes(Existing, Suggested)
     /\ Depth(Suggested) <= config.maxDepth
     /\ isInVocabulary(config, Suggested))
        => Target = StripSlashes(Suggested)

\* C3's case: an exact member that is neither the first entry nor slash-free
C3_Witness ==
    /\ Resolved
    /\ config.mode = "strict"
    /\ Len(Existing) = 2
    /\ Suggested = Existing[2]
    /\ Head(Suggested) = "/"
    /\ Depth(Suggested) <= config.maxDepth
    /\ isInVocabulary(config, Suggested)
    /\ Target = StripSlashes(Suggested)
    /\ Target # Suggested

\* C4: in Strict mode with no existing category the resolver writes the root, the
\* empty path, whatever the suggestion and the bounds.
C4_StrictEmptyRoot ==
    (Resolved /\ config.mode = "strict" /\ Existing = <<>>) => Target = <<>>

\* C4's case: a two-level suggestion outside the vocabulary, resolved to the root
C4_Witness ==
    /\ Resolved
    /\ config.mode = "strict"
    /\ Existing = <<>>
    /\ Suggested = WorkTravel
    /\ config.categoryVocabulary # <<>>
    /\ Target = <<>>

\* the entry of the list most similar to the suggestion, the first seen on a tie
MostSimilar(list, suggestedPath) ==
    BestOver(list, suggestedPath, [path |-> list[1], similarity |-> SimZero])

\* what the Strict fuzzy step is to return: the most similar entry when its score
\* exceeds 0.3, else the first entry
ExpectedFuzzy(list, suggestedPath) ==
    LET best == MostSimilar(list, suggestedPath)
    IN  IF best.similarity.n * 10 > StrictThreshold * best.similarity.d
        THEN best.path
        ELSE list[1]

\* C5: in Strict mode a suggestion that is no exact member resolves to the most
\* similar existing category when its similarity exceeds 0.3, else to the first one
\* (stated for a clean suggestion within the depth bound, with no vocabulary).
C5_StrictFuzzy ==
    (/\ Resolved
     /\ config.mode = "strict"
     /\ Existing # <<>>
     /\ config.categoryVocabulary = <<>>
     /\ Suggested # <<>>
     /\ Suggested = JoinSlash(CategoryParts(Suggested))
     /\ Depth(Suggested) <= config.maxDepth
     /\ ~IsExisting(Existing, Suggested))
        => Target = StripSlashes(ExpectedFuzzy(Existing, Suggested))

\* C6: in Flexible mode a written category that is not an existing one has fewer
\* than maxChildren existing categories under its parent.
C6_MaxChildren ==
    (/\ Resolved
     /\ config.mode = "flexible"
     /\ Target # <<>>
     /\ ~IsMemberUpToSlashes(Existing, Target))
        => Len(SiblingCategories(Existing, ParentOf(CategoryParts(Target))))
               < config.maxChildren

\* the first correction recorded for exactly this file name, as a list of at most one
ExactCorrection(fileName) ==
    FirstRecord(corrections,
                {n \in 1..Len(corrections) : corrections[n].fileName = fileName})

\* C7: once a correction is recorded for a file name, a later result for a file of
\* exactly that name gets the learned path, only its surrounding slashes stripped.
C7_CorrectionPrecedence ==
    (Called /\ ExactCorrection(applied[1].fileName) # <<>>)
        => Target = StripSlashes(ExactCorrection(applied[1].fileName)[1].userChosen)

\* C7's case: a learned path deeper than maxDepth, in Strict mode, whose file's AI
\* suggestion is an existing category
C7_Witness ==
    /\ Called
    /\ ExactCorrection(applied[1].fileName) # <<>>
    /\ config.mode = "strict"
    /\ Depth(Target) > config.maxDepth
    /\ ListIncludes(Existing, Suggested)
    /\ Target # StripSlashes(Suggested)

(***************************************************************************)
(* Properties of processFiles, over the store once a call has returned.    *)
(***************************************************************************)

\* the ids a call processes: the files that were Pending in its snapshot
ProcessedIds(r) ==
    {runs[r].filesToProcess[j].id : j \in
        {n \in 1..Len(runs[r].filesToProcess) : runs[r].filesToProcess[n].status = "pending"}}

\* call r hashed the file and its hash was in the index the call had loaded
FoundDuplicate(r, file) ==
    /\ file.id \in ProcessedIds(r)
    /\ file.contentHash # <<>>
    /\ file.contentHash \in runs[r].existingHashes

\* the index entry of a hash, as a list of at most one
EntryOfHash(hash) == SelectSeq(index.entries, LAMBDA e : e.key = hash)

\* a message that signals "notSupported"
SignalsNotSupported(message) ==
    \/ Includes(message, NotSupportedMark)
    \/ Includes(ToLowerCase(message), NotSupportMarkEnglish)

\* C8: a file whose hash processFiles found in the index has status Duplicate and an
\* explanatory proposal once the call has returned.
C8_DuplicateStatus ==
    \A r \in 1..Len(runs), j \in 1..Len(files) :
        (runs[r].pc = "done" /\ FoundDuplicate(r, files[j]))
            => (files[j].status = "duplicate" /\ files[j].proposal # <<>>)

\* C9: the proposal of a file found duplicate carries the exact-duplicate tag exactly
\* when the file's name is the originalName of the index entry of its hash, and the
\* renamed-duplicate tags exactly when the names differ.
C9_DuplicateTag ==
    \A r \in 1..Len(runs), j \in 1..Len(files) :
        (/\ runs[r].pc = "done"
         /\ FoundDuplicate(r, files[j])
         /\ files[j].proposal # <<>>
         /\ EntryOfHash(files[j].contentHash) # <<>>)
            => LET sameName ==
                       files[j].name = EntryOfHash(files[j].contentHash)[1].originalName
                   tags == files[j].proposal[1].tags
               IN  /\ (tags = ExactDuplicateTags) <=> sameName
                   /\ (tags = RenamedDuplicateTags) <=> ~sameName

\* C10: a file whose Phase 2 call failed with a message signalling "notSupported"
\* has status Error, with an error message that contains the marker, once the call
\* has returned.
C10_NotSupportedError ==
    \A r \in 1..Len(runs), j \in 1..Len(files) :
        (/\ runs[r].pc = "done"
         /\ \E n \in 1..Len(runs[r].caught) :
               /\ runs[r].caught[n].id = files[j].id
               /\ SignalsNotSupported(runs[r].caught[n].message))
            => (files[j].status = "error" /\ SignalsNotSupported(files[j].error))

(***************************************************************************)
(* Properties of the error handling of processFiles.                       *)
(***************************************************************************)

\* the staged file of an id, as a list of at most one
FileOfId(id) == SelectSeq(files, LAMBDA f : f.id = id)

\* C11: once a call has returned, every file for which it caught an exception (of
\* the hash, of reading the content or of the provider) has status Error with an
\* error message that contains the cause, and every file of the call after it has
\* been taken up (none is still Pending).
C11_CaughtPerFile ==
    \A r \in 1..Len(runs) :
        runs[r].pc = "done" =>
            /\ \A n \in 1..Len(runs[r].caught) :
                  LET file == FileOfId(runs[r].caught[n].id)
                  IN  /\ file # <<>>
                      /\ file[1].status = "error"
                      /\ Includes(file[1].error, runs[r].caught[n].message)
            /\ \A id \in ProcessedIds(r) :
                  FileOfId(id) # <<>> /\ FileOfId(id)[1].status # "pending"

\* call r has returned after its manifest call failed: it had files to analyze and an
\* AI configuration, and holds no manifest answer
ManifestCallFailed(r) ==
    /\ runs[r].pc = "done"
    /\ runs[r].filesToAnalyze # <<>>
    /\ runs[r].config # "none"
    /\ runs[r].response = <<>>

\* the files call r queued for analysis all have status Error with the batch-level
\* message and no proposal, and the Phase 2 loop never stopped at a file
QueuedAllFailed(r) ==
    /\ \A n \in 1..Len(runs[r].filesToAnalyze) :
          LET file == FileOfId(runs[r].filesToAnalyze[n].id)
          IN  /\ file # <<>>
              /\ file[1].status = "error"
              /\ Includes(file[1].error, MsgProvider)
              /\ file[1].proposal = <<>>
    /\ runs[r].k = 0

\* C12: when the manifest call of a batch fails, the call returns with every file
\* queued for analysis in status Error with the batch-level message (none Pending or
\* Analyzing), no supplement was asked for, and every other file, the duplicates the
\* call found among them, is as it was.
C12_ManifestFailure ==
    [][\A r \in 1..Len(runs) :
          (runs[r].pc = "manifest" /\ ManifestCallFailed(r)') =>
              /\ QueuedAllFailed(r)'
              /\ Len(files') = Len(files)
              /\ \A j \in 1..Len(files) :
                    \/ \E n \in 1..Len(runs[r].filesToAnalyze) :
                          runs[r].filesToAnalyze[n].id = files[j].id
                    \/ files'[j] = files[j]
              /\ \A j \in 1..Len(files) :
                    FoundDuplicate(r, files[j]) => files'[j] = files[j]]_vars

\* C12's case: the manifest call failed for a batch that held a duplicate and a
\* file to analyze
C12_Witness ==
    \E r \in 1..Len(runs) :
        /\ ManifestCallFailed(r)
        /\ \E j \in 1..Len(files) : FoundDuplicate(r, files[j])

\* C13: once a call has returned, every file it moved from Pending to Analyzing has
\* status Success, Error or Duplicate.
C13_NoneLeftAnalyzing ==
    \A r \in 1..Len(runs) :
        runs[r].pc = "done" =>
            \A id \in ProcessedIds(r) :
                /\ FileOfId(id) # <<>>
                /\ FileOfId(id)[1].status \in {"success", "error", "duplicate"}

(***************************************************************************)
(* Properties of the store actions, over the observed call.                *)
(***************************************************************************)
StoreCalled(op) == storeCall # <<>> /\ storeCall[1].op = op
Before == storeCall[1].before
SelectedBefore == storeCall[1].selected

\* how often x is in the list
Occurrences(list, x) == Cardinality({i \in 1..Len(list) : list[i] = x})

\* the files are those of before the call, one for one, changed only where ids says
SameExceptFor(ids) ==
    /\ Len(files) = Len(Before)
    /\ \A j \in 1..Len(Before) : Before[j].id \notin ids => files[j] = Before[j]

\* C14: reanalyzeFiles called with a set of ids leaves each file of the set Pending,
\* without proposal, userEdit and error, and otherwise as it was (its name, content,
\* hash and path); every other file and the workflow status are as before, and with
\* the empty set nothing has changed.
C14_Reanalyze ==
    (StoreCalled("reanalyzeFiles") /\ storeCall[1].argument # <<>>) =>
        LET ids == storeCall[1].argument[1]
        IN  /\ SameExceptFor(ids)
            /\ \A j \in 1..Len(Before) :
                  Before[j].id \in ids =>
                      /\ files[j].status = "pending"
                      /\ files[j].proposal = <<>>
                      /\ files[j].userEdit = <<>>
                      /\ files[j].error = <<>>
                      /\ files[j].id = Before[j].id
                      /\ files[j].name = Before[j].name
                      /\ files[j].content = Before[j].content
                      /\ files[j].contentHash = Before[j].contentHash
                      /\ files[j].originalPath = Before[j].originalPath
            /\ workflowStatus = storeCall[1].status
            /\ ids = {} => files = Before

\* C14's case: the set holds a file with a proposal and an edit and a file with an
\* error, and leaves a file out
C14_Witness ==
    /\ StoreCalled("reanalyzeFiles")
    /\ storeCall[1].argument # <<>>
    /\ \E a, b, c \in 1..Len(Before) :
          /\ {Before[a].id, Before[b].id} \subseteq storeCall[1].argument[1]
          /\ Before[c].id \notin storeCall[1].argument[1]
          /\ Before[a].proposal # <<>> /\ Before[a].userEdit # <<>>
          /\ Before[b].error # <<>>

\* after batchUpdateTargetPath every selected file has the path as its edited target,
\* what else it had edited is kept, and the unselected files are as before
PathSetOnSelection ==
    StoreCalled("batchUpdateTargetPath") =>
        /\ SameExceptFor(SelectedBefore)
        /\ \A j \in 1..Len(Before) :
              Before[j].id \in SelectedBefore =>
                  /\ files[j].userEdit # <<>>
                  /\ files[j].userEdit[1].targetPath = <<storeCall[1].argument>>
                  /\ files[j].userEdit[1].tags =
                        (IF Before[j].userEdit = <<>> THEN <<>>
                         ELSE Before[j].userEdit[1].tags)
                  /\ [files[j] EXCEPT !.userEdit = <<>>] = [Before[j] EXCEPT !.userEdit = <<>>]

\* after batchRemoveFiles the store holds the unselected files, as they were and in
\* their order
SelectionRemoved ==
    StoreCalled("batchRemoveFiles") =>
        files = SelectSeq(Before, LAMBDA f : f.id \notin SelectedBefore)

\* C16 as stated: the batch actions act on exactly the selected files, and after
\* batchAddTag every selected file has the tag exactly once in its effective tags.
C16_BatchActionsAsStated ==
    /\ PathSetOnSelection
    /\ SelectionRemoved
    /\ StoreCalled("batchAddTag") =>
          /\ SameExceptFor(SelectedBefore)
          /\ \A j \in 1..Len(Before) :
                Before[j].id \in SelectedBefore =>
                    Occurrences(EffectiveTags(files[j]), storeCall[1].argument) = 1

\* C16 amended: the batch actions act on exactly the selected files, and after
\* batchAddTag every selected file has the tag in its effective tags: added once at
\* the end when it was not there, and the file unchanged when it was.
C16_BatchActions ==
    /\ PathSetOnSelection
    /\ SelectionRemoved
    /\ StoreCalled("batchAddTag") =>
          /\ SameExceptFor(SelectedBefore)
          /\ \A j \in 1..Len(Before) :
                Before[j].id \in SelectedBefore =>
                    LET tag == storeCall[1].argument
                        was == EffectiveTags(Before[j])
                    IN  /\ ListIncludes(EffectiveTags(files[j]), tag)
                        /\ ListIncludes(was, tag) => files[j] = Before[j]
                        /\ ~ListIncludes(was, tag) =>
                              /\ EffectiveTags(files[j]) = Append(was, tag)
                              /\ [files[j] EXCEPT !.userEdit = <<>>] =
                                    [Before[j] EXCEPT !.userEdit = <<>>]

\* C16's case: a tag is added to a selection that holds a file with the tag and a
\* file without it, and leaves a file out
C16_Witness ==
    /\ StoreCalled("batchAddTag")
    /\ \E a, b, c \in 1..Len(Before) :
          /\ {Before[a].id, Before[b].id} \subseteq SelectedBefore
          /\ Before[c].id \notin SelectedBefore
          /\ ListIncludes(EffectiveTags(Before[a]), storeCall[1].argument)
          /\ ~ListIncludes(EffectiveTags(Before[b]), storeCall[1].argument)

\* ---------------------------------------------------------------------------
\* Commit and undo
\* ---------------------------------------------------------------------------

Succeeded(results) == SelectSeq(results, LAMBDA r : r.success)

Failed(results) == SelectSeq(results, LAMBDA r : ~r.success)

InStore(id) == \E k \in 1..Len(files) : files[k].id = id

\* C17: a commit attempts every one of its n files, in order, whatever failed
\* before; when its loop is over successCount + failCount = n; the files it moved
\* are gone from the store, and the files whose move failed are in the store as
\* the commit found them, with status success and the same proposal and userEdit
C17_PartialFailure ==
    \A c \in 1..Len(commits) :
        LET commit == commits[c]
            n == Len(commit.filesToCommit)
            results == commit.results
        IN  /\ Len(results) <= n
            /\ commit.pc = "move" <=> Len(results) < n
            /\ \A j \in 1..Len(results) : results[j].fileId = commit.filesToCommit[j].id
            /\ commit.pc \in {"finish", "done"} =>
                  Len(Succeeded(results)) + Len(Failed(results)) = n
            /\ \A j \in 1..Len(results) : results[j].success => ~InStore(results[j].fileId)
            /\ c = Len(commits) =>
                  \A j \in 1..Len(results) :
                      ~results[j].success =>
                          \E k \in 1..Len(files) :
                              /\ files[k] = commit.filesToCommit[j]
                              /\ files[k].status = "success"

\* a commit of three files is over, the second move failed and the others did not:
\* two successes, one failure, and the second file alone is still staged
C17_Witness ==
    \E c \in 1..Len(commits) :
        LET commit == commits[c]
        IN  /\ commit.pc = "done"
            /\ c = Len(commits)
            /\ Len(commit.filesToCommit) = 3
            /\ [j \in 1..3 |-> commit.results[j].success] = <<TRUE, FALSE, TRUE>>
            /\ Len(Succeeded(commit.results)) = 2
            /\ Len(Failed(commit.results)) = 1
            /\ InStore(commit.filesToCommit[2].id)
            /\ ~InStore(commit.filesToCommit[1].id)
            /\ ~InStore(commit.filesToCommit[3].id)

\* the target the user has set for the file, <<>> when the user has set none
UserTarget(file) ==
    IF file.userEdit # <<>> THEN file.userEdit[1].targetPath ELSE <<>>

\* the target the file is to go to: the user's when there is one, whatever its
\* value, and the proposal's when there is none
FinalPath(file) ==
    IF UserTarget(file) # <<>> THEN UserTarget(file)[1] ELSE file.proposal[1].targetPath

\* C18: every file a commit has moved went to the place computed from
\* userEdit.targetPath when the file has one, the root path included, and from
\* proposal.targetPath only when it has none
C18_UserEditWins ==
    \A c \in 1..Len(commits) :
        \A j \in 1..Len(commits[c].results) :
            LET file == commits[c].filesToCommit[j]
                result == commits[c].results[j]
            IN  result.success =>
                    result.targetPath = FullTargetFile(RootPath, FinalPath(file), file.name)

\* the disk an undo finds when it comes to its n-th operation
RECURSIVE DiskBefore(_, _)
DiskBefore(undo, n) ==
    IF n = 1 THEN undo.before
    ELSE LET disk_ == DiskBefore(undo, n - 1)
             op == undo.operations[n - 1]
         IN  IF undo.outcomes[n - 1] = "moved" THEN Renamed(disk_, op.source, op.target)
             ELSE disk_

\* the undo that the step has run, when it has run one
UndoRun(before, after) == Len(after) > Len(before)

\* every operation of the log is replayed, and the counts add up to their number
AllReplayed(undo) ==
    /\ Len(undo.outcomes) = Len(undo.operations)
    /\ undo.successCount + undo.failCount = Len(undo.operations)
    /\ undo.successCount = Count(undo.outcomes, {"moved"})

\* an operation whose file is not at T is skipped and counted as a failure
MissingSkipped(undo, n) ==
    ~Exists(DiskBefore(undo, n), undo.operations[n].source) =>
        /\ undo.outcomes[n] = "missing"
        /\ DiskBefore(undo, n + 1) = DiskBefore(undo, n)
        /\ undo.failCount >= 1

\* an operation that has moved its file found it at T and has left it at S
MovedBack(undo, n) ==
    LET op == undo.operations[n]
        found == DiskBefore(undo, n)
        left == DiskBefore(undo, n + 1)
    IN  undo.outcomes[n] = "moved" =>
            /\ Exists(found, op.source)
            /\ Exists(left, op.target)
            /\ ContentAt(left, op.target) = ContentAt(found, op.source)
            /\ ~Exists(left, op.source)

\* C19 as stated: every operation whose file is at T moves it back to S, one whose
\* file is missing is skipped and counted in failCount, the later ones are still
\* replayed, and successCount + failCount is the number of operations
C19_UndoAsStated ==
    [][UndoRun(undos, undos') =>
          LET undo == undos'[Len(undos')]
          IN  /\ undo.before = disk
              /\ AllReplayed(undo)
              /\ DiskBefore(undo, Len(undo.operations) + 1) = disk'
              /\ \A n \in 1..Len(undo.operations) :
                    /\ MissingSkipped(undo, n)
                    /\ MovedBack(undo, n)
                    /\ Exists(DiskBefore(undo, n), undo.operations[n].source) =>
                          undo.outcomes[n] = "moved"]_vars

\* C19: every operation whose file is at T moves it back to S unless the file
\* system rejects the move, which leaves the file at T and counts in failCount; one
\* whose file is missing is skipped and counted in failCount; the later ones are
\* still replayed, and successCount + failCount is the number of operations
C19_UndoReplays ==
    [][UndoRun(undos, undos') =>
          LET undo == undos'[Len(undos')]
          IN  /\ undo.before = disk
              /\ AllReplayed(undo)
              /\ DiskBefore(undo, Len(undo.operations) + 1) = disk'
              /\ \A n \in 1..Len(undo.operations) :
                    /\ MissingSkipped(undo, n)
                    /\ MovedBack(undo, n)
                    /\ Exists(DiskBefore(undo, n), undo.operations[n].source) =>
                          \/ undo.outcomes[n] = "moved"
                          \/ /\ undo.outcomes[n] = "failed"
                             /\ DiskBefore(undo, n + 1) = DiskBefore(undo, n)
                             /\ undo.failCount >= 1]_vars

\* an undo has found the file of its first operation missing, has skipped it and
\* has moved the file of a later operation back
C19_Witness ==
    \E u \in 1..Len(undos) :
        LET undo == undos[u]
        IN  /\ Len(undo.operations) >= 2
            /\ undo.outcomes[1] = "missing"
            /\ \E n \in 2..Len(undo.operations) :
                  /\ undo.outcomes[n] = "moved"
                  /\ Exists(disk, undo.operations[n].target)
            /\ undo.successCount + undo.failCount = Len(undo.operations)
            /\ undo.failCount >= 1

\* ---------------------------------------------------------------------------
\* The workflow status
\* ---------------------------------------------------------------------------

\* the step is the end of a commit whose loop is over
CommitLoopOver(c) ==
    /\ c \in 1..Len(commits)
    /\ commits[c].pc = "finish"
    /\ commits'[c].pc = "done"

\* C15: the workflow status changes only from idle to reviewing, from reviewing to
\* executing, and from executing, when the loop of the commit is over, to done if
\* no move failed and to reviewing if one did
C15_WorkflowOrder ==
    [][workflowStatus' # workflowStatus =>
          \/ workflowStatus = "idle" /\ workflowStatus' = "reviewing"
          \/ workflowStatus = "reviewing" /\ workflowStatus' = "executing"
          \/ /\ workflowStatus = "executing"
             /\ \E c \in 1..Len(commits) :
                   /\ CommitLoopOver(c)
                   /\ workflowStatus' = IF Failed(commits[c].results) = <<>>
                                         THEN "done" ELSE "reviewing"]_vars

\* ---------------------------------------------------------------------------
\* Commit, undo, commit again
\* ---------------------------------------------------------------------------

\* the path is in the knowledge base
UnderRoot(path) ==
    /\ Len(path) > Len(RootPath)
    /\ SubSeq(path, 1, Len(RootPath)) = RootPath

\* the file is kept from the commit as a duplicate
HeldAsDuplicate(file) ==
    \/ file.status = "duplicate"
    \/ file.proposal # <<>> /\ Includes(file.proposal[1].targetPath, SkipMark)

\* C20: a file that an undo has moved back to S and that is staged again from S is
\* not held as a duplicate because of the first commit: it is held only when a file
\* of the same content is in the knowledge base
C20_RestoredGoesAgain ==
    \A u \in 1..Len(undos) :
        \A n \in 1..Len(undos[u].operations) :
            LET op == undos[u].operations[n]
            IN  undos[u].outcomes[n] = "moved" =>
                    \A k \in 1..Len(files) :
                        (/\ files[k].originalPath = op.target
                         /\ Exists(disk, op.target)
                         /\ HeldAsDuplicate(files[k])) =>
                            \E e \in disk :
                                /\ UnderRoot(e.path)
                                /\ e.content = ContentAt(disk, op.target)

\* ---------------------------------------------------------------------------
\* What an undo leaves
\* ---------------------------------------------------------------------------

\* the operations of the undo that moved their file back, in the order of the log
MovedOperations(undo) ==
    LET moved == SelectSeq([n \in 1..Len(undo.operations) |-> n],
                           LAMBDA n : undo.outcomes[n] = "moved")
    IN  [m \in 1..Len(moved) |-> undo.operations[moved[m]]]

Inverses(results) ==
    LET moved == Succeeded(results)
    IN  [m \in 1..Len(moved) |-> UndoOperation(moved[m].targetPath, moved[m].sourcePath)]

\* C22: when a commit returns, the undo log held is the list of the inverses of the
\* moves of this commit that succeeded, in the order of the commit: the source of
\* each is where the file is now and its target where the file was; nothing of the
\* log of an earlier commit is left
C22_FreshUndoLog ==
    [][\A c \in 1..Len(commits) :
          CommitLoopOver(c) =>
              LET commit == commits[c]
                  moved == SelectSeq([j \in 1..Len(commit.results) |-> j],
                                     LAMBDA j : commit.results[j].success)
              IN  /\ undoLog' = <<Inverses(commit.results)>>
                  /\ Len(undoLog'[1]) = Len(moved)
                  /\ \A m \in 1..Len(moved) :
                        LET op == undoLog'[1][m]
                            file == commit.filesToCommit[moved[m]]
                        IN  /\ op.target = file.originalPath
                            /\ op.source = commit.results[moved[m]].targetPath
                            /\ Exists(disk', op.source)]_vars

\* a second commit has returned after a first one that had moved a file: the log
\* holds the one move of the second commit
C22_Witness ==
    /\ Len(commits) = 2
    /\ commits[2].pc = "done"
    /\ Succeeded(commits[1].results) # <<>>
    /\ Succeeded(commits[2].results) # <<>>
    /\ undoLog = <<Inverses(commits[2].results)>>
    /\ \A n \in 1..Len(undoLog[1]) :
          \A m \in 1..Len(commits[1].undoOperations) :
              undoLog[1][n] # commits[1].undoOperations[m]

\* the step is a click on Undo while no log is held in memory: the last undo has
\* cleared it, or no commit has returned yet
UndoWithoutLog ==
    /\ undoLog = <<>>
    /\ commits' = commits
    /\ runs' = runs
    /\ workflowStatus' = workflowStatus
    /\ selectedFileIds' = selectedFileIds

\* C23: an undo leaves no undo log, whatever failed, and an undo that finds none
\* in memory replays no operation and moves no file
C23_NoLogAfterUndo ==
    [][/\ UndoRun(undos, undos') => undoLog' = <<>>
       /\ UndoWithoutLog => (undos' = undos /\ disk' = disk /\ files' = files)]_vars

\* ---------------------------------------------------------------------------
\* What a commit is willing to move
\* ---------------------------------------------------------------------------

\* the file is ready and its proposal is the root, with no target set by the user
ReadyForRoot(file) ==
    /\ file.status = "success"
    /\ file.proposal # <<>>
    /\ file.proposal[1].targetPath = <<>>
    /\ UserTarget(file) = <<>>

\* C27: a ready file whose target is the root is not failed by a commit for a
\* missing target path: it is moved into the root directory, unless the move
\* itself is rejected
C27_RootCommitted ==
    \A c \in 1..Len(commits) :
        \A j \in 1..Len(commits[c].results) :
            LET file == commits[c].filesToCommit[j]
                result == commits[c].results[j]
            IN  ReadyForRoot(file) =>
                    /\ result.error # "noTarget"
                    /\ result.success =>
                          result.targetPath = FullTargetFile(RootPath, <<>>, file.name)

\* ---------------------------------------------------------------------------
\* The persisted index
\* ---------------------------------------------------------------------------

\* the keys of the entries of an index
KeysOf(persisted) == {persisted.entries[j].key : j \in 1..Len(persisted.entries)}

\* C25: the index a commit leaves holds every entry the index held before it, and
\* one entry more for each file the commit has moved, under the file's content hash
C25_IndexOnlyGrows ==
    [][\A c \in 1..Len(commits) :
          CommitLoopOver(c) =>
              /\ \A j \in 1..Len(index.entries) :
                    \E k \in 1..Len(index'.entries) : index'.entries[k] = index.entries[j]
              /\ \A j \in 1..Len(commits[c].results) :
                    commits[c].results[j].success =>
                        commits[c].filesToCommit[j].contentHash \in KeysOf(index')]_vars

\* a commit would take the file: it is ready and its proposal is not a duplicate's
Committable(file) == FilesToCommit(<<file>>, {}) # <<>>

\* C26: of two staged files of the same content, at most one is committable
C26_OneCopyCommittable ==
    \A j, k \in 1..Len(files) :
        (/\ j # k
         /\ files[j].contentHash # <<>>
         /\ files[j].contentHash = files[k].contentHash) =>
            ~(Committable(files[j]) /\ Committable(files[k]))

\* the analysis of the file was rejected as not supported, and the file holds the
\* proposal written for that
AnalysisRejected(file) ==
    \E r \in 1..Len(runs) :
        \E n \in 1..Len(runs[r].caught) :
            /\ runs[r].caught[n].id = file.id
            /\ SignalsNotSupported(runs[r].caught[n].message)
            /\ file.proposal = <<ModelLimitProposal(runs[r].caught[n].message)>>

\* C28: no commit takes a file whose analysis was rejected as not supported
C28_FailedNotCommitted ==
    \A c \in 1..Len(commits) :
        \A j \in 1..Len(commits[c].filesToCommit) :
            ~AnalysisRejected(commits[c].filesToCommit[j])


(***************************************************************************)
(* Properties of calls of processFiles that overlap, and of files removed  *)
(* while a call is suspended.                                              *)
(***************************************************************************)

\* the call r was given the file id while the file was pending
GivenPending(r, id) ==
    \E j \in 1..Len(runs[r].filesToProcess) :
        runs[r].filesToProcess[j].id = id /\ runs[r].filesToProcess[j].status = "pending"

\* the call r has set the file id to analyzing and asked for its hash
TookUp(r, id) ==
    /\ runs[r].pc # "load"
    /\ \E j \in 1..Len(runs[r].filesToProcess) :
          /\ j <= runs[r].i
          /\ runs[r].filesToProcess[j].id = id
          /\ runs[r].filesToProcess[j].status = "pending"

\* the call r has sent the file id to the provider in its manifest
SentToProvider(r, id) ==
    /\ runs[r].pc \in {"manifest", "supplement"}
    /\ \E j \in 1..Len(runs[r].filesToAnalyze) : runs[r].filesToAnalyze[j].id = id

\* the call r has not returned
InFlight(r) == runs[r].pc # "done"

\* C29: of two calls of processFiles that are in flight at once and were both given
\* the same pending file, at most one sets the file to analyzing and hashes it, and
\* at most one sends it to the provider
C29_TakenByOneCall ==
    \A r1, r2 \in 1..Len(runs) : \A id \in 1..(nextId - 1) :
        (r1 < r2 /\ InFlight(r1) /\ InFlight(r2)
            /\ GivenPending(r1, id) /\ GivenPending(r2, id))
        => /\ ~(TookUp(r1, id) /\ TookUp(r2, id))
           /\ ~(SentToProvider(r1, id) /\ SentToProvider(r2, id))


\* a call of processFiles resumes in this step
CallResumes == Len(runs') = Len(runs) /\ runs' # runs

\* C24: once a file of the store has a status other than pending and analyzing that
\* the resuming call has not given it, the call writes no hash, status or proposal
\* for it: a file that is success or error when a call resumes is the same after
\* the step
C24_SettledLeftAlone ==
    [][\A j \in 1..Len(files) :
          (CallResumes /\ files[j].status \in {"success", "error"})
          => /\ Len(files') = Len(files)
             /\ files'[j] = files[j]]_vars


\* the ids of a list of files, in its order
IdsOf(staged) == [j \in 1..Len(staged) |-> staged[j].id]

\* C30: a file that is out of the store stays out, and a call of processFiles that
\* resumes leaves the list of the store's ids as it is, whatever it writes for the
\* files that were removed while it was suspended
C30_RemovedStaysOut ==
    [][/\ \A id \in 1..(nextId - 1) : ~InStore(id) => ~InStore(id)'
       /\ CallResumes => IdsOf(files') = IdsOf(files)]_vars

\* the selection was removed while the only call was analyzing a file of it, and the
\* call has since had a Direct answer for the file and returned
C30_Witness ==
    /\ StoreCalled("batchRemoveFiles")
    /\ Len(runs) = 1
    /\ runs[1].pc = "done"
    /\ \E j \in 1..Len(Before) :
          /\ Before[j].status = "analyzing"
          /\ Before[j].contentHash # <<>>
          /\ ~InStore(Before[j].id)
          /\ runs[1].response # <<>>
          /\ runs[1].response[Before[j].id].instruction = "Direct"

====
